---- MODULE Spec2Model ----
(***************************************************************************)
(* Verification model of the business-logic documentation extractor:       *)
(* the classifier (logic-classifier.ts), the snapshot/diff tracker         *)
(* (diff-tracker.ts) and the extraction run (index.ts).                    *)
(***************************************************************************)
EXTENDS Naturals, Integers, Sequences, FiniteSets, TLC

VARIABLES
    useAmpForAmbiguous, \* the classifier's constructor option
    regexIndexes,   \* lastIndex of every pattern object of the two tables
    cPending,       \* the entity whose classify call awaits the assistant, or NoEntity
    cLog,           \* the classify calls that returned: entity, option, result
    cMessages,      \* messages the pending assistant call has streamed that are no result
    dPrevious,      \* computeDiff input held by the caller: a previous snapshot
    dCurrent,       \* computeDiff input held by the caller: the current snapshot
    dArgs,          \* the (previous, current) arguments of the latest computeDiff call
    dResult,        \* the DiffResult the latest computeDiff call returned
    dCalls,         \* number of computeDiff calls made so far
    latest,         \* content of <snapshotDir>/latest.json, or NoFile
    history,        \* the files <snapshotDir>/snapshot-<tag>.json: tag -> content
    now,            \* the wall clock, Date.now(), in milliseconds, as last read
    tree,           \* the source tree the extractors read
    runs,           \* number of extraction runs started
    rpc,            \* position of the extraction run in extract()
    rUseAmp,        \* options.useAmpForClassification of the run
    rFunctions,     \* functions
    rSQLBlocks,     \* sqlBlocks
    rClassifiedFunctions,   \* classifiedFunctions
    rClassifiedSQLBlocks,   \* classifiedSQLBlocks
    rPrevious,      \* previousSnapshot
    rCurrent,       \* currentSnapshot
    rDiff,          \* diff
    sinceEdit,      \* runs started since the source tree was last edited (at most 2)
    prevRun,        \* the run before this one: its assistant option, whether it saved
    sCalls,         \* saveSnapshot calls made by a caller of the store alone
    batch,          \* the classifyFunctions / classifySQLBlocks call in progress, or NoBatch
    sqlFile,        \* the SQL source handed to extractFromSource and the blocks it returned, or NoSQLFile
    docs,           \* the lists handed to MarkdownGenerator.generate and the files it wrote, or NoDocs
    wRuns,          \* the extraction processes the webhook handler has spawned
    wEvents,        \* requests the webhook handler has answered with 200
    wServer         \* the webhook server process: whether it runs, its last request and answer

classifierVars == <<useAmpForAmbiguous, regexIndexes, cPending, cLog, cMessages>>
diffVars == <<dPrevious, dCurrent, dArgs, dResult, dCalls>>
storeVars == <<latest, history, now>>
runVars == <<tree, runs, rpc, rUseAmp, rFunctions, rSQLBlocks, rClassifiedFunctions,
             rClassifiedSQLBlocks, rPrevious, rCurrent, rDiff, sinceEdit, prevRun>>
callerVars == <<sCalls, batch, sqlFile, docs>>
hookVars == <<wRuns, wEvents, wServer>>
vars == <<useAmpForAmbiguous, regexIndexes, cPending, cLog, cMessages,
          dPrevious, dCurrent, dArgs, dResult, dCalls, latest, history, now,
          tree, runs, rpc, rUseAmp, rFunctions, rSQLBlocks, rClassifiedFunctions,
          rClassifiedSQLBlocks, rPrevious, rCurrent, rDiff, sinceEdit, prevRun,
          sCalls, batch, sqlFile, docs, wRuns, wEvents, wServer>>

(***************************************************************************)
(* Bounds of the model.                                                    *)
(***************************************************************************)
\* Records held by the two snapshots handed to computeDiff, taken together.
MaxRecords == 3
\* computeDiff calls made on one pair of snapshots.
MaxCalls == 2
\* Entities handed to one batch classification call.
MaxBatch == 2
\* Lines of a SQL source file.
MaxLines == 3
\* Functions, and SQL blocks, handed to one generate call.
MaxEntities == 2
\* Last instant of the wall clock.
MaxClock == 1
\* classify calls made on one classifier module.
MaxClassify == 2
\* Extraction runs started on one snapshot directory.
MaxRuns == 2
\* saveSnapshot calls made by a caller of the store alone.
MaxSaves == 3
\* Files of a source tree handed to the extractors alone.
MaxFiles == 3
\* requests handled by the webhook handler
MaxEvents == 2
\* messages of the assistant's stream that come before its result message
MaxMessages == 2

(***************************************************************************)
(* Values.                                                                 *)
(***************************************************************************)
\* JavaScript null (loadPreviousSnapshot's "no previous snapshot").
Null == [null |-> TRUE]

\* No file at a path (existsSync is false).
NoFile == [nofile |-> TRUE]

\* Nothing returned yet.
NoResult == [noresult |-> TRUE]

\* No entity.
NoEntity == [noentity |-> TRUE]

\* No batch classification call was made.
NoBatch == [nobatch |-> TRUE]

\* No SQL source was read.
NoSQLFile == [nosqlfile |-> TRUE]

\* generate was not called.
NoDocs == [nodocs |-> TRUE]

\* The webhook server listens and has had no request.
ServerUp == [alive |-> TRUE, body |-> 0, header |-> 0, event |-> "", status |-> 0, spawned |-> 0]

Classifications == {"business_logic", "pipeline_code"}

(***************************************************************************)
(* Strings are sequences of one-character strings. Regular expressions     *)
(* (logic-classifier.ts, the two pattern tables): a pattern is a sequence  *)
(* of segments joined by ".*", each segment a set of literal alternatives, *)
(* anchored or not at the start of the text; every pattern has the flags   *)
(* of Flags.                                                               *)
(***************************************************************************)
BUSINESS_LOGIC_PATTERNS == <<
    \* /threshold/i
    [anchored |-> FALSE, segments |-> <<{<<"t", "h", "r", "e", "s", "h", "o", "l", "d">>}>>],
    \* /limit/i
    [anchored |-> FALSE, segments |-> <<{<<"l", "i", "m", "i", "t">>}>>],
    \* /calculate.*(?:rag|status|score)/i
    [anchored |-> FALSE, segments |-> <<{<<"c", "a", "l", "c", "u", "l", "a", "t", "e">>}, {<<"r", "a", "g">>, <<"s", "t", "a", "t", "u", "s">>, <<"s", "c", "o", "r", "e">>}>>],
    \* /validate/i
    [anchored |-> FALSE, segments |-> <<{<<"v", "a", "l", "i", "d", "a", "t", "e">>}>>],
    \* /check.*(?:rule|condition|constraint)/i
    [anchored |-> FALSE, segments |-> <<{<<"c", "h", "e", "c", "k">>}, {<<"r", "u", "l", "e">>, <<"c", "o", "n", "d", "i", "t", "i", "o", "n">>, <<"c", "o", "n", "s", "t", "r", "a", "i", "n", "t">>}>>],
    \* /(?:red|amber|green)/i
    [anchored |-> FALSE, segments |-> <<{<<"r", "e", "d">>, <<"a", "m", "b", "e", "r">>, <<"g", "r", "e", "e", "n">>}>>],
    \* /percentage/i
    [anchored |-> FALSE, segments |-> <<{<<"p", "e", "r", "c", "e", "n", "t", "a", "g", "e">>}>>],
    \* /rate.*(?:increase|decrease)/i
    [anchored |-> FALSE, segments |-> <<{<<"r", "a", "t", "e">>}, {<<"i", "n", "c", "r", "e", "a", "s", "e">>, <<"d", "e", "c", "r", "e", "a", "s", "e">>}>>],
    \* /rule/i
    [anchored |-> FALSE, segments |-> <<{<<"r", "u", "l", "e">>}>>],
    \* /policy/i
    [anchored |-> FALSE, segments |-> <<{<<"p", "o", "l", "i", "c", "y">>}>>],
    \* /eligibility/i
    [anchored |-> FALSE, segments |-> <<{<<"e", "l", "i", "g", "i", "b", "i", "l", "i", "t", "y">>}>>],
    \* /compliance/i
    [anchored |-> FALSE, segments |-> <<{<<"c", "o", "m", "p", "l", "i", "a", "n", "c", "e">>}>>],
    \* /sla/i
    [anchored |-> FALSE, segments |-> <<{<<"s", "l", "a">>}>>],
    \* /kpi/i
    [anchored |-> FALSE, segments |-> <<{<<"k", "p", "i">>}>>],
    \* /metric/i
    [anchored |-> FALSE, segments |-> <<{<<"m", "e", "t", "r", "i", "c">>}>>]
>>

PIPELINE_CODE_PATTERNS == <<
    \* /^(?:load|read|write|save)_/i
    [anchored |-> TRUE, segments |-> <<{<<"l", "o", "a", "d", "_">>, <<"r", "e", "a", "d", "_">>, <<"w", "r", "i", "t", "e", "_">>, <<"s", "a", "v", "e", "_">>}>>],
    \* /^(?:extract|transform|ingest)/i
    [anchored |-> TRUE, segments |-> <<{<<"e", "x", "t", "r", "a", "c", "t">>, <<"t", "r", "a", "n", "s", "f", "o", "r", "m">>, <<"i", "n", "g", "e", "s", "t">>}>>],
    \* /^(?:setup|init|configure|connect)/i
    [anchored |-> TRUE, segments |-> <<{<<"s", "e", "t", "u", "p">>, <<"i", "n", "i", "t">>, <<"c", "o", "n", "f", "i", "g", "u", "r", "e">>, <<"c", "o", "n", "n", "e", "c", "t">>}>>],
    \* /spark\.read/i
    [anchored |-> FALSE, segments |-> <<{<<"s", "p", "a", "r", "k", ".", "r", "e", "a", "d">>}>>],
    \* /\.write\./i
    [anchored |-> FALSE, segments |-> <<{<<".", "w", "r", "i", "t", "e", ".">>}>>],
    \* /\.save\(/i
    [anchored |-> FALSE, segments |-> <<{<<".", "s", "a", "v", "e", "(">>}>>],
    \* /\.load\(/i
    [anchored |-> FALSE, segments |-> <<{<<".", "l", "o", "a", "d", "(">>}>>],
    \* /pd\.read/i
    [anchored |-> FALSE, segments |-> <<{<<"p", "d", ".", "r", "e", "a", "d">>}>>],
    \* /to_(?:csv|parquet|json)/i
    [anchored |-> FALSE, segments |-> <<{<<"t", "o", "_", "c", "s", "v">>, <<"t", "o", "_", "p", "a", "r", "q", "u", "e", "t">>, <<"t", "o", "_", "j", "s", "o", "n">>}>>],
    \* /get_(?:connection|session|client)/i
    [anchored |-> FALSE, segments |-> <<{<<"g", "e", "t", "_", "c", "o", "n", "n", "e", "c", "t", "i", "o", "n">>, <<"g", "e", "t", "_", "s", "e", "s", "s", "i", "o", "n">>, <<"g", "e", "t", "_", "c", "l", "i", "e", "n", "t">>}>>],
    \* /create_(?:table|database|schema)/i
    [anchored |-> FALSE, segments |-> <<{<<"c", "r", "e", "a", "t", "e", "_", "t", "a", "b", "l", "e">>, <<"c", "r", "e", "a", "t", "e", "_", "d", "a", "t", "a", "b", "a", "s", "e">>, <<"c", "r", "e", "a", "t", "e", "_", "s", "c", "h", "e", "m", "a">>}>>]
>>

\* String.prototype.toLowerCase on one character (the i flag's case folding).
UpperCase == {"A", "B", "C", "D", "E", "F", "G", "H", "I", "J", "K", "L", "M", "N", "O", "P", "Q", "R", "S", "T", "U", "V", "W", "X", "Y", "Z"}
LowerOf == [c \in UpperCase |->
    CASE c = "A" -> "a"
      [] c = "B" -> "b"
      [] c = "C" -> "c"
      [] c = "D" -> "d"
      [] c = "E" -> "e"
      [] c = "F" -> "f"
      [] c = "G" -> "g"
      [] c = "H" -> "h"
      [] c = "I" -> "i"
      [] c = "J" -> "j"
      [] c = "K" -> "k"
      [] c = "L" -> "l"
      [] c = "M" -> "m"
      [] c = "N" -> "n"
      [] c = "O" -> "o"
      [] c = "P" -> "p"
      [] c = "Q" -> "q"
      [] c = "R" -> "r"
      [] c = "S" -> "s"
      [] c = "T" -> "t"
      [] c = "U" -> "u"
      [] c = "V" -> "v"
      [] c = "W" -> "w"
      [] c = "X" -> "x"
      [] c = "Y" -> "y"
      [] c = "Z" -> "z"]

toLowerCase(c) == IF c \in UpperCase THEN LowerOf[c] ELSE c

\* Faulty variant of Flags: the patterns carry the g flag as well.
FlagsGlobal == {"g", "i"}

\* The flags of every pattern literal: /.../i.
Flags == {"i"}

Max(S) == CHOOSE x \in S : \A y \in S : y <= x
Min(S) == CHOOSE x \in S : \A y \in S : x <= y

\* The literal lit matches text at position i (1-based), case folded.
LiteralAt(text, lit, i) ==
    /\ i + Len(lit) - 1 <= Len(text)
    /\ \A k \in 1..Len(lit) : toLowerCase(text[i + k - 1]) = lit[k]

\* "." matches every character but a line terminator.
DotStarSpans(text, from, to) == \A k \in from..to : text[k] # "\n"

\* The positions just past a match of segments n..Len(segs) that starts at i.
RECURSIVE MatchEnds(_, _, _, _)
MatchEnds(text, segs, n, i) ==
    LET here == {i + Len(lit) : lit \in {l \in segs[n] : LiteralAt(text, l, i)}}
    IN  IF n = Len(segs) THEN here
        ELSE UNION {UNION {MatchEnds(text, segs, n + 1, j) :
                             j \in {q \in e..Len(text) : DotStarSpans(text, e, q - 1)}} :
                    e \in here}

\* RegExp.prototype.exec from index lastIndex (0-based): the end index of the
\* leftmost match, ".*" being greedy, or -1 when there is none.
RegExpExec(pattern, text, lastIndex) ==
    LET starts == {i \in (lastIndex + 1)..Len(text) :
                      /\ pattern.anchored => i = 1
                      /\ MatchEnds(text, pattern.segments, 1, i) # {}}
    IN  IF starts = {} THEN -1
        ELSE Max(MatchEnds(text, pattern.segments, 1, Min(starts))) - 1

\* RegExp.prototype.test: the outcome and the lastIndex the pattern object is
\* left with. Without the g flag lastIndex is neither read nor written.
RegExpTest(pattern, text, lastIndex) ==
    IF "g" \in Flags
    THEN LET end == RegExpExec(pattern, text, lastIndex)
         IN  [matched |-> end # -1, lastIndex |-> IF end = -1 THEN 0 ELSE end]
    ELSE [matched |-> RegExpExec(pattern, text, 0) # -1, lastIndex |-> lastIndex]

\* countPatternMatches(text, patterns): the count and the patterns' new lastIndex.
countPatternMatches(text, patterns, indexes) ==
    LET tests == [k \in 1..Len(patterns) |-> RegExpTest(patterns[k], text, indexes[k])]
    IN  [count |-> Cardinality({k \in 1..Len(patterns) : tests[k].matched}),
         indexes |-> [k \in 1..Len(patterns) |-> tests[k].lastIndex]]

(***************************************************************************)
(* Extracted entities (python-extractor.ts, sql-extractor.ts interfaces).  *)
(***************************************************************************)
PyPath == <<"a", ".", "p", "y">>
SqlPath == <<"b", ".", "s", "q", "l">>

ExtractedFunction(name, filePath, sourceCode, docstring, markers) ==
    [kind |-> "function", name |-> name, filePath |-> filePath,
     signature |-> <<"d", "e", "f", " ">> \o name \o <<"(", ")">>,
     sourceCode |-> sourceCode, docstring |-> docstring, businessRuleMarkers |-> markers]

ExtractedSQLBlock(name, filePath, sourceCode, description, markers) ==
    [kind |-> "sql", name |-> name, filePath |-> filePath, sqlType |-> "query",
     sourceCode |-> sourceCode, description |-> description, businessRuleMarkers |-> markers]

(***************************************************************************)
(* LogicClassifier (logic-classifier.ts).                                  *)
(***************************************************************************)
ClassificationResult(classification, confidence, reason) ==
    [classification |-> classification, confidence |-> confidence, reason |-> reason]

\* A reason text: the template's fixed words and the values interpolated in it.
Reason(words, first, second, list) ==
    [words |-> words, first |-> first, second |-> second, list |-> list]

\* Array.prototype.join(', ').
RECURSIVE join(_)
join(list) ==
    IF list = <<>> THEN <<>>
    ELSE IF Len(list) = 1 THEN list
    ELSE <<list[1], ", ">> \o join(Tail(list))

\* Faulty variant of MarkerStep: one marker is not enough.
MarkerStepOffByOne(businessRuleMarkers) ==
    IF Len(businessRuleMarkers) > 1
    THEN ClassificationResult("business_logic", "high",
            Reason("Contains BUSINESS_RULE markers: ", 0, 0, join(businessRuleMarkers)))
    ELSE NoResult

\* Step 1: `if (businessRuleMarkers.length > 0) return ...`.
MarkerStep(businessRuleMarkers) ==
    IF Len(businessRuleMarkers) > 0
    THEN ClassificationResult("business_logic", "high",
            Reason("Contains BUSINESS_RULE markers: ", 0, 0, join(businessRuleMarkers)))
    ELSE NoResult

\* Faulty variant of ScoreStep: a score of 1 against 0 already gives high, and
\* the larger of two positive scores gives high too.
ScoreStepAlwaysHigh(businessLogicScore, pipelineCodeScore) ==
    IF businessLogicScore > pipelineCodeScore
    THEN ClassificationResult("business_logic", "high",
            Reason("Matches n business logic patterns", businessLogicScore, 0, <<>>))
    ELSE IF pipelineCodeScore > businessLogicScore
    THEN ClassificationResult("pipeline_code", "high",
            Reason("Matches n pipeline code patterns", pipelineCodeScore, 0, <<>>))
    ELSE NoResult

\* Steps 2 and 3: the four score comparisons, in order.
ScoreStep(businessLogicScore, pipelineCodeScore) ==
    IF businessLogicScore > 0 /\ pipelineCodeScore = 0
    THEN ClassificationResult("business_logic",
            IF businessLogicScore >= 2 THEN "high" ELSE "medium",
            Reason("Matches n business logic patterns", businessLogicScore, 0, <<>>))
    ELSE IF pipelineCodeScore > 0 /\ businessLogicScore = 0
    THEN ClassificationResult("pipeline_code",
            IF pipelineCodeScore >= 2 THEN "high" ELSE "medium",
            Reason("Matches n pipeline code patterns", pipelineCodeScore, 0, <<>>))
    ELSE IF businessLogicScore > pipelineCodeScore
    THEN ClassificationResult("business_logic", "medium",
            Reason("Matches n business logic patterns vs m pipeline patterns",
                   businessLogicScore, pipelineCodeScore, <<>>))
    ELSE IF pipelineCodeScore > businessLogicScore
    THEN ClassificationResult("pipeline_code", "medium",
            Reason("Matches n pipeline patterns vs m business logic patterns",
                   pipelineCodeScore, businessLogicScore, <<>>))
    ELSE NoResult

\* Faulty variant of DefaultResult: the default is given with confidence medium.
DefaultResultMedium ==
    ClassificationResult("pipeline_code", "medium",
        Reason("No clear patterns matched, defaulting to pipeline_code", 0, 0, <<>>))

\* Step 5: the default.
DefaultResult ==
    ClassificationResult("pipeline_code", "low",
        Reason("No clear patterns matched, defaulting to pipeline_code", 0, 0, <<>>))

\* `${name} ${sourceCode} ${description || ''}`.
textToAnalyze(name, sourceCode, description) ==
    name \o <<" ">> \o sourceCode \o <<" ">>
         \o (IF description = Null THEN <<>> ELSE description)

\* classify(name, sourceCode, description, businessRuleMarkers) up to the await
\* of classifyWithAmp: the result, or NoResult when no step before step 4 returned,
\* and the lastIndex the pattern objects are left with.
classifySteps(name, sourceCode, description, businessRuleMarkers, indexes) ==
    IF MarkerStep(businessRuleMarkers) # NoResult
    THEN [result |-> MarkerStep(businessRuleMarkers), indexes |-> indexes]
    ELSE LET text == textToAnalyze(name, sourceCode, description)
             bl == countPatternMatches(text, BUSINESS_LOGIC_PATTERNS, indexes.businessLogic)
             pc == countPatternMatches(text, PIPELINE_CODE_PATTERNS, indexes.pipelineCode)
         IN  [result |-> ScoreStep(bl.count, pc.count),
              indexes |-> [businessLogic |-> bl.indexes, pipelineCode |-> pc.indexes]]

\* The description argument classifyFunction / classifySQLBlock pass.
DescriptionOf(entity) ==
    IF entity.kind = "function" THEN entity.docstring ELSE entity.description

classifyEntity(entity, indexes) ==
    classifySteps(entity.name, entity.sourceCode, DescriptionOf(entity),
                  entity.businessRuleMarkers, indexes)

\* What the assistant call can come to (executePrompt over execute({prompt})).
\* A result message carries is_error and, when not an error, the result text.
JSONText(classification) == [text |-> "json", classification |-> classification]
ResultTexts ==
    {JSONText(c) : c \in Classifications \cup {"other"}}
        \cup {[text |-> "broken json", classification |-> ""],
              [text |-> "no braces", classification |-> ""]}
AmpOutcomes ==
    {[type |-> "result", is_error |-> FALSE, result |-> t] : t \in ResultTexts}
        \cup {[type |-> "result", is_error |-> TRUE, result |-> JSONText("")],
              [type |-> "end of stream", is_error |-> FALSE, result |-> JSONText("")],
              [type |-> "throw", is_error |-> FALSE, result |-> JSONText("")]}

\* executePrompt(prompt): the text returned, or Thrown.
Thrown == [thrown |-> TRUE]
executePrompt(outcome) ==
    IF outcome.type = "throw" THEN Thrown
    ELSE IF outcome.type = "end of stream" THEN [text |-> "", classification |-> ""]
    ELSE IF outcome.is_error THEN Thrown
    ELSE outcome.result

\* Faulty variant of parseAmpResponse: the label of a parsed response is not
\* validated.
parseAmpResponseUnvalidated(response) ==
    IF response.text = "json"
    THEN ClassificationResult(response.classification, "medium",
            Reason("AI: reason", 0, 0, <<>>))
    ELSE ClassificationResult("pipeline_code", "low",
            Reason("AI classification failed, defaulting to pipeline_code", 0, 0, <<>>))

\* classifyWithAmp after `await executePrompt(prompt)`: the try block and its catch.
parseAmpResponse(response) ==
    IF response.text = "json" /\ response.classification \in Classifications
    THEN ClassificationResult(response.classification, "medium",
            Reason("AI: reason", 0, 0, <<>>))
    ELSE ClassificationResult("pipeline_code", "low",
            Reason("AI classification failed, defaulting to pipeline_code", 0, 0, <<>>))

\* classify from the await of classifyWithAmp on: its result, or the default
\* when classifyWithAmp threw.
classifyAfterAmp(outcome) ==
    IF executePrompt(outcome) = Thrown
    THEN DefaultResult
    ELSE parseAmpResponse(executePrompt(outcome))

InitialIndexes ==
    [businessLogic |-> [k \in 1..Len(BUSINESS_LOGIC_PATTERNS) |-> 0],
     pipelineCode |-> [k \in 1..Len(PIPELINE_CODE_PATTERNS) |-> 0]]

InitClassifierIdle ==
    /\ useAmpForAmbiguous = TRUE
    /\ regexIndexes = InitialIndexes
    /\ cPending = NoEntity
    /\ cLog = <<>>
    /\ cMessages = 0

(***************************************************************************)
(* Snapshot records (diff-tracker.ts, interfaces).                         *)
(***************************************************************************)
FilePaths == {<<"a", ".", "p", "y">>, <<"b", ".", "s", "q", "l">>}
Hashes == {"h1", "h2"}

FunctionSnapshot ==
    [name : {<<"f">>}, filePath : FilePaths, signature : {<<"d", "e", "f", " ", "f", "(", ")">>},
     classification : Classifications, hash : Hashes]

SQLBlockSnapshot ==
    [name : {<<"q">>}, filePath : FilePaths, sqlType : {"query"},
     classification : Classifications, hash : Hashes]

ExtractionSnapshot(ts, commit, fs, bs) ==
    [timestamp |-> ts, commit |-> commit, functions |-> fs, sqlBlocks |-> bs]

(***************************************************************************)
(* JavaScript Map built from an entry list: a key keeps the position of    *)
(* its first insertion and the value of its last one; iteration follows    *)
(* insertion order. A map is a sequence of <<key, value>> entries.         *)
(***************************************************************************)
MapHas(m, k) == \E i \in 1..Len(m) : m[i][1] = k

MapGet(m, k) == m[CHOOSE i \in 1..Len(m) : m[i][1] = k][2]

\* Faulty variant of MapSet: the first value inserted under a key is kept.
MapSetKeepFirst(m, k, v) ==
    IF MapHas(m, k) THEN m ELSE Append(m, <<k, v>>)

MapSet(m, k, v) ==
    IF MapHas(m, k)
    THEN [i \in 1..Len(m) |-> IF m[i][1] = k THEN <<k, v>> ELSE m[i]]
    ELSE Append(m, <<k, v>>)

RECURSIVE NewMap(_)
NewMap(entries) ==
    IF entries = <<>> THEN <<>>
    ELSE LET n == Len(entries)
             m == NewMap(SubSeq(entries, 1, n - 1))
         IN  MapSet(m, entries[n][1], entries[n][2])

\* The identity key `${filePath}:${name}`.
Key(r) == r.filePath \o <<":">> \o r.name

KeyedEntries(list) == [i \in 1..Len(list) |-> <<Key(list[i]), list[i]>>]

(***************************************************************************)
(* computeDiff (diff-tracker.ts).                                          *)
(***************************************************************************)
\* Faulty variant of Reclassification: from and to are exchanged.
ReclassificationSwapped(prev, curr) ==
    [name |-> curr.name, filePath |-> curr.filePath,
     from |-> curr.classification, to |-> prev.classification]

Reclassification(prev, curr) ==
    [name |-> curr.name, filePath |-> curr.filePath,
     from |-> prev.classification, to |-> curr.classification]

\* Faulty variant of EmptyLists: the lists of the previous call's result are pushed into again.
EmptyListsStale ==
    IF dResult = NoResult
    THEN [added |-> <<>>, removed |-> <<>>, modified |-> <<>>, reclassified |-> <<>>]
    ELSE [added |-> dResult.added.functions, removed |-> dResult.removed.functions,
          modified |-> dResult.modified.functions,
          reclassified |-> dResult.reclassified.functions]

\* The empty per-kind result the loops push into.
EmptyLists == [added |-> <<>>, removed |-> <<>>, modified |-> <<>>, reclassified |-> <<>>]

\* Faulty variant of CurrentStep: a reclassification is reported only when the hash is unchanged.
CurrentStepExclusive(acc, prevMap, key, curr) ==
    IF ~MapHas(prevMap, key)
    THEN [acc EXCEPT !.added = Append(@, curr)]
    ELSE LET prev == MapGet(prevMap, key) IN
         IF prev.hash # curr.hash
         THEN [acc EXCEPT !.modified = Append(@, [previous |-> prev, current |-> curr])]
         ELSE IF prev.classification # curr.classification
              THEN [acc EXCEPT !.reclassified = Append(@, Reclassification(prev, curr))]
              ELSE acc

\* One iteration of `for (const [key, curr] of currMap)`.
CurrentStep(acc, prevMap, key, curr) ==
    IF ~MapHas(prevMap, key)
    THEN [acc EXCEPT !.added = Append(@, curr)]
    ELSE LET prev == MapGet(prevMap, key) IN
         IF prev.hash # curr.hash
         THEN LET a1 == [acc EXCEPT !.modified =
                            Append(@, [previous |-> prev, current |-> curr])]
              IN  IF prev.classification # curr.classification
                  THEN [a1 EXCEPT !.reclassified = Append(@, Reclassification(prev, curr))]
                  ELSE a1
         ELSE IF prev.classification # curr.classification
              THEN [acc EXCEPT !.reclassified = Append(@, Reclassification(prev, curr))]
              ELSE acc

RECURSIVE CurrentLoop(_, _, _, _)
CurrentLoop(acc, prevMap, currMap, n) ==
    IF n = 0 THEN acc
    ELSE CurrentStep(CurrentLoop(acc, prevMap, currMap, n - 1),
                     prevMap, currMap[n][1], currMap[n][2])

\* Faulty variant of PreviousStep: the negation of the membership test is lost.
PreviousStepInverted(acc, currMap, key, prev) ==
    IF MapHas(currMap, key)
    THEN [acc EXCEPT !.removed = Append(@, prev)]
    ELSE acc

\* One iteration of `for (const [key, prev] of prevMap)`.
PreviousStep(acc, currMap, key, prev) ==
    IF ~MapHas(currMap, key)
    THEN [acc EXCEPT !.removed = Append(@, prev)]
    ELSE acc

RECURSIVE PreviousLoop(_, _, _, _)
PreviousLoop(acc, prevMap, currMap, n) ==
    IF n = 0 THEN acc
    ELSE PreviousStep(PreviousLoop(acc, prevMap, currMap, n - 1),
                      currMap, prevMap[n][1], prevMap[n][2])

DiffFunctions(acc, previous, current) ==
    LET prevFunctionMap == NewMap(KeyedEntries(previous.functions))
        currFunctionMap == NewMap(KeyedEntries(current.functions))
        a1 == CurrentLoop(acc, prevFunctionMap, currFunctionMap, Len(currFunctionMap))
    IN  PreviousLoop(a1, prevFunctionMap, currFunctionMap, Len(prevFunctionMap))

\* Faulty variant of DiffSQLBlocks: the previous map is built from the function records.
DiffSQLBlocksCopied(acc, previous, current) ==
    LET prevSQLMap == NewMap(KeyedEntries(previous.functions))
        currSQLMap == NewMap(KeyedEntries(current.sqlBlocks))
        a1 == CurrentLoop(acc, prevSQLMap, currSQLMap, Len(currSQLMap))
    IN  PreviousLoop(a1, prevSQLMap, currSQLMap, Len(prevSQLMap))

DiffSQLBlocks(acc, previous, current) ==
    LET prevSQLMap == NewMap(KeyedEntries(previous.sqlBlocks))
        currSQLMap == NewMap(KeyedEntries(current.sqlBlocks))
        a1 == CurrentLoop(acc, prevSQLMap, currSQLMap, Len(currSQLMap))
    IN  PreviousLoop(a1, prevSQLMap, currSQLMap, Len(prevSQLMap))

DiffResult(fs, bs) ==
    [added        |-> [functions |-> fs.added,        sqlBlocks |-> bs.added],
     removed      |-> [functions |-> fs.removed,      sqlBlocks |-> bs.removed],
     modified     |-> [functions |-> fs.modified,     sqlBlocks |-> bs.modified],
     reclassified |-> [functions |-> fs.reclassified, sqlBlocks |-> bs.reclassified]]

\* Faulty variant of FirstRunDiff: a missing previous snapshot is diffed as an empty one.
FirstRunDiffAsEmpty(current) ==
    LET empty == [functions |-> <<>>, sqlBlocks |-> <<>>]
    IN  DiffResult(DiffFunctions(EmptyLists, empty, current),
                   DiffSQLBlocks(EmptyLists, empty, current))

\* Faulty variant of FirstRunDiff: the SQL-block records are left out.
FirstRunDiffFunctionsOnly(current) ==
    DiffResult([EmptyLists EXCEPT !.added = current.functions], EmptyLists)

\* `if (!previous) return {added: {functions: current.functions, ...}, ...}`.
FirstRunDiff(current) ==
    DiffResult([EmptyLists EXCEPT !.added = current.functions],
               [EmptyLists EXCEPT !.added = current.sqlBlocks])

computeDiff(previous, current) ==
    IF previous = Null
    THEN FirstRunDiff(current)
    ELSE DiffResult(DiffFunctions(EmptyLists, previous, current),
                    DiffSQLBlocks(EmptyLists, previous, current))

(***************************************************************************)
(* The snapshot store (diff-tracker.ts): latest.json and the history.      *)
(***************************************************************************)
\* JavaScript undefined, and the number NaN.
Undefined == [undefined |-> TRUE]
NaN == [nan |-> TRUE]

\* obj.key: undefined when the object has no such property.
Get(obj, key) == IF key \in DOMAIN obj THEN obj[key] ELSE Undefined

\* Date.prototype.toISOString, millisecond exact, and new Date(v).getTime():
\* the instant of an ISO text, NaN for undefined.
toISOString(ms) == [iso |-> ms]
getTime(v) == IF "iso" \in DOMAIN v THEN [ms |-> v.iso] ELSE NaN

\* JSON text of a string: quotation mark, reverse solidus and line feed are
\* written as two-character escapes.
EscapeChar(c) ==
    IF c = "\"" THEN <<"\\", "\"">>
    ELSE IF c = "\\" THEN <<"\\", "\\">>
    ELSE IF c = "\n" THEN <<"\\", "n">>
    ELSE <<c>>

\* Faulty variant of Quote: nothing is escaped.
QuoteRaw(chars) == chars

RECURSIVE Quote(_)
Quote(chars) ==
    IF chars = <<>> THEN <<>> ELSE EscapeChar(Head(chars)) \o Quote(Tail(chars))

\* The string a JSON string text denotes: a bare quotation mark ends the text
\* early and a reverse solidus must start a known escape, else a SyntaxError.
Parsed(chars) == [error |-> FALSE, chars |-> chars]
SyntaxError == [error |-> TRUE, chars |-> <<>>]
RECURSIVE Unquote(_)
Unquote(text) ==
    IF text = <<>> THEN Parsed(<<>>)
    ELSE IF text[1] = "\"" THEN SyntaxError
    ELSE IF text[1] = "\\"
    THEN IF Len(text) < 2 \/ text[2] \notin {"\"", "\\", "n"} THEN SyntaxError
         ELSE LET rest == Unquote(SubSeq(text, 3, Len(text)))
              IN  IF rest.error THEN SyntaxError
                  ELSE Parsed(<<IF text[2] = "n" THEN "\n" ELSE text[2]>> \o rest.chars)
    ELSE LET rest == Unquote(Tail(text))
         IN  IF rest.error THEN SyntaxError ELSE Parsed(<<text[1]>> \o rest.chars)

\* JSON texts. A plain text is that of a string holding no character JSON
\* escapes: a classification label, a hex digest, an ISO timestamp, an sqlType.
JSONString(chars) == [type |-> "string", chars |-> Quote(chars)]
JSONPlain(value) == [type |-> "plain", value |-> value]
JSONArray(items) == [type |-> "array", items |-> items]
JSONObject(members) == [type |-> "object", members |-> members]
JSONNull == [type |-> "null"]
\* A file content that is no JSON text at all.
NotJSON == [type |-> "not json"]

StringifyFunction(f) ==
    JSONObject(<< <<"name", JSONString(f.name)>>, <<"filePath", JSONString(f.filePath)>>,
                  <<"signature", JSONString(f.signature)>>,
                  <<"classification", JSONPlain(f.classification)>>,
                  <<"hash", JSONPlain(f.hash)>> >>)

StringifySQLBlock(b) ==
    JSONObject(<< <<"name", JSONString(b.name)>>, <<"filePath", JSONString(b.filePath)>>,
                  <<"sqlType", JSONPlain(b.sqlType)>>,
                  <<"classification", JSONPlain(b.classification)>>,
                  <<"hash", JSONPlain(b.hash)>> >>)

\* JSON.stringify(snapshot, null, 2): the own properties in creation order, a
\* property whose value is undefined being left out.
JSONStringify(snapshot) ==
    JSONObject(
        << <<"timestamp", JSONPlain(snapshot.timestamp)>> >>
        \o (IF snapshot.commit = Undefined THEN <<>>
            ELSE << <<"commit", JSONString(snapshot.commit)>> >>)
        \o << <<"functions",
                JSONArray([i \in 1..Len(snapshot.functions) |->
                              StringifyFunction(snapshot.functions[i])])>>,
              <<"sqlBlocks",
                JSONArray([i \in 1..Len(snapshot.sqlBlocks) |->
                              StringifySQLBlock(snapshot.sqlBlocks[i])])>> >>)

\* JSON.parse(content) does not throw.
RECURSIVE IsJSON(_)
IsJSON(content) ==
    CASE content.type = "string" -> ~Unquote(content.chars).error
      [] content.type \in {"plain", "null"} -> TRUE
      [] content.type = "array" ->
            \A i \in 1..Len(content.items) : IsJSON(content.items[i])
      [] content.type = "object" ->
            \A i \in 1..Len(content.members) : IsJSON(content.members[i][2])
      [] OTHER -> FALSE

\* JSON.parse(content): of members with one name the last is kept.
RECURSIVE JSONParse(_)
JSONParse(content) ==
    CASE content.type = "string" -> Unquote(content.chars).chars
      [] content.type = "plain" -> content.value
      [] content.type = "null" -> Null
      [] content.type = "array" ->
            [i \in 1..Len(content.items) |-> JSONParse(content.items[i])]
      [] content.type = "object" ->
            LET m == content.members
            IN  [k \in {m[i][1] : i \in 1..Len(m)} |->
                    JSONParse(m[Max({i \in 1..Len(m) : m[i][1] = k})][2])]

\* getTimestampFromSnapshot(content); t3 is the clock read in the catch branch,
\* reached when JSON.parse throws or returns null.
getTimestampFromSnapshot(content, t3) ==
    IF IsJSON(content) /\ JSONParse(content) # Null
    THEN getTime(Get(JSONParse(content), "timestamp"))
    ELSE [ms |-> t3]

WriteFile(files, tag, content) ==
    [t \in (DOMAIN files) \cup {tag} |-> IF t = tag THEN content ELSE files[t]]

\* The history tag saveSnapshot writes to: historyPath is built from the clock
\* read t1, and the text replaced in it from a second clock read t2.
HistoryTag(previous, t1, t2) ==
    IF t2 = t1 THEN getTimestampFromSnapshot(previous, t2) ELSE [ms |-> t1]

\* saveSnapshot(snapshot), with its two reads t1 <= t2 of the clock.
saveSnapshot(snapshot, t1, t2) ==
    /\ history' = IF latest # NoFile
                  THEN WriteFile(history, HistoryTag(latest, t1, t2), latest)
                  ELSE history
    /\ latest' = JSONStringify(snapshot)
    /\ now' = t2

\* Faulty variant of loadPreviousSnapshot: latest.json is never found.
loadPreviousSnapshotNever == Null

\* loadPreviousSnapshot().
loadPreviousSnapshot ==
    IF latest = NoFile THEN Null
    ELSE IF IsJSON(latest) THEN JSONParse(latest) ELSE Null

NoFiles == [t \in {} |-> NoFile]

(***************************************************************************)
(* The extraction run (index.ts, extract) and createSnapshot.              *)
(***************************************************************************)
\* crypto.createHash('md5').update(content).digest('hex').
hashContent(content) == [md5 |-> content]

\* {...entity, classificationResult: result}.
Classified(entity, result) ==
    [f \in (DOMAIN entity) \cup {"classificationResult"} |->
        IF f = "classificationResult" THEN result ELSE entity[f]]

FunctionSnapshotOf(f) ==
    [name |-> f.name, filePath |-> f.filePath, signature |-> f.signature,
     classification |-> f.classificationResult.classification,
     hash |-> hashContent(f.sourceCode)]

SQLBlockSnapshotOf(b) ==
    [name |-> b.name, filePath |-> b.filePath, sqlType |-> b.sqlType,
     classification |-> b.classificationResult.classification,
     hash |-> hashContent(b.sourceCode)]

\* createSnapshot(functions, sqlBlocks, commit), t being its read of the clock.
createSnapshot(functions, sqlBlocks, commit, t) ==
    ExtractionSnapshot(toISOString(t), commit,
        [i \in 1..Len(functions) |-> FunctionSnapshotOf(functions[i])],
        [i \in 1..Len(sqlBlocks) |-> SQLBlockSnapshotOf(sqlBlocks[i])])

\* The calls that await the assistant.
AwaitingAmp(results, useAmp) ==
    IF useAmp THEN {i \in 1..Len(results) : results[i] = NoResult} ELSE {}

\* The array Promise.all resolves to; outcomes[i] is what the assistant call of
\* entity i came to.
ClassifiedAll(entities, results, useAmp, outcomes) ==
    [i \in 1..Len(entities) |->
        Classified(entities[i],
            IF results[i] # NoResult THEN results[i]
            ELSE IF useAmp THEN classifyAfterAmp(outcomes[i])
            ELSE DefaultResult)]

\* A file of the source tree: what extractFromFile of the Python extractor and
\* extractFromFile / extractEmbeddedSQL of the SQL extractor return for it, and
\* whether they throw instead (the file cannot be read or parsed).
SourceFile(path, ext, functions, blocks, pythonThrows, sqlThrows) ==
    [path |-> path, ext |-> ext, functions |-> functions, blocks |-> blocks,
     pythonThrows |-> pythonThrows, sqlThrows |-> sqlThrows]

\* glob('**/*.<ext>'): the files of one extension, in the order glob lists them.
Glob(files, ext) == SelectSeq(files, LAMBDA f : f.ext = ext)

\* Faulty variant of PythonLoop: the first function of a failed file is kept.
RECURSIVE PythonLoopPartial(_, _)
PythonLoopPartial(pythonFiles, n) ==
    IF n = 0 THEN <<>>
    ELSE IF pythonFiles[n].pythonThrows
    THEN PythonLoopPartial(pythonFiles, n - 1) \o SubSeq(pythonFiles[n].functions, 1, 1)
    ELSE PythonLoopPartial(pythonFiles, n - 1) \o pythonFiles[n].functions

\* PythonExtractor.extractFromDirectory, the loop over the first n files:
\* try { allFunctions.push(...extractFromFile(filePath)) } catch { log }.
RECURSIVE PythonLoop(_, _)
PythonLoop(pythonFiles, n) ==
    IF n = 0 THEN <<>>
    ELSE IF pythonFiles[n].pythonThrows
    THEN PythonLoop(pythonFiles, n - 1)
    ELSE PythonLoop(pythonFiles, n - 1) \o pythonFiles[n].functions

PythonExtractFromDirectory(files) ==
    PythonLoop(Glob(files, "py"), Len(Glob(files, "py")))

\* SQLExtractor.extractFromDirectory: the loop over the .sql files, then the
\* loop over the .py files for embedded SQL, each with its try and catch.
RECURSIVE SQLLoop(_, _)
SQLLoop(someFiles, n) ==
    IF n = 0 THEN <<>>
    ELSE IF someFiles[n].sqlThrows
    THEN SQLLoop(someFiles, n - 1)
    ELSE SQLLoop(someFiles, n - 1) \o someFiles[n].blocks

SQLExtractFromDirectory(files) ==
    SQLLoop(Glob(files, "sql"), Len(Glob(files, "sql")))
        \o SQLLoop(Glob(files, "py"), Len(Glob(files, "py")))

\* Two revisions of a source tree.
TreeA ==
    [commit |-> <<"c", "1">>,
     files |-> <<
        SourceFile(PyPath, "py",
            <<ExtractedFunction(<<"l", "o", "a", "d", "_", "k", "p", "i">>, PyPath, <<"x">>, Null, <<>>),
              ExtractedFunction(<<"l", "o", "a", "d", "_", "x">>, PyPath, <<"x">>, Null,
                                <<"RED if increase >= 50%">>)>>,
            <<>>, FALSE, FALSE),
        SourceFile(SqlPath, "sql", <<>>,
            <<ExtractedSQLBlock(<<"u", "n", "n", "a", "m", "e", "d", "_", "q", "u", "e", "r", "y">>, SqlPath, <<"r", "u", "l", "e">>, Null, <<>>),
              ExtractedSQLBlock(<<"u", "n", "n", "a", "m", "e", "d", "_", "q", "u", "e", "r", "y">>, SqlPath, <<"k", "p", "i">>, Null, <<>>)>>,
            FALSE, FALSE)>>]
TreeB ==
    [commit |-> <<"c", "2">>,
     files |-> <<
        SourceFile(PyPath, "py",
            <<ExtractedFunction(<<"l", "o", "a", "d", "_", "k", "p", "i">>, PyPath, <<"r", "u", "l", "e">>, Null, <<>>)>>,
            <<>>, FALSE, FALSE),
        TreeA.files[2]>>]
\* TreeA with two more files, neither of which can be read.
TreeC ==
    [commit |-> <<"c", "1">>,
     files |-> <<SourceFile(<<"c", ".", "p", "y">>, "py",
                    <<ExtractedFunction(<<"k", "p", "i">>, <<"c", ".", "p", "y">>, <<"x">>, Null, <<>>)>>,
                    <<>>, TRUE, TRUE),
                 TreeA.files[1],
                 SourceFile(<<"d", ".", "s", "q", "l">>, "sql", <<>>,
                    <<ExtractedSQLBlock(<<"q">>, <<"d", ".", "s", "q", "l">>, <<"x">>, Null, <<>>)>>,
                    FALSE, TRUE),
                 TreeA.files[2]>>]
Trees == {TreeA, TreeB}

\* The entities the classify calls of SpecClassify are made on.
EntityPool == {
    \* markers, and a name the pipeline patterns match
    ExtractedFunction(<<"l", "o", "a", "d", "_", "x">>, PyPath, <<"x">>, Null, <<"RED if increase >= 50%">>),
    \* markers, and a text both tables match once
    ExtractedSQLBlock(<<"l", "o", "a", "d", "_", "k", "p", "i">>, SqlPath, <<"x">>, Null, <<"rule one", "rule two">>),
    \* one business-logic match, in upper case
    ExtractedFunction(<<"L", "i", "m", "i", "t">>, PyPath, <<"x">>, Null, <<>>),
    \* two business-logic matches
    ExtractedFunction(<<"k", "p", "i">>, PyPath, <<"r", "u", "l", "e">>, Null, <<>>),
    \* one pipeline match
    ExtractedFunction(<<"l", "o", "a", "d", "_", "x">>, PyPath, <<"x">>, Null, <<>>),
    \* two pipeline matches
    ExtractedFunction(<<"i", "n", "i", "t">>, PyPath, <<"p", "d", ".", "r", "e", "a", "d">>, Null, <<>>),
    \* two business-logic matches against one pipeline match
    ExtractedFunction(<<"l", "o", "a", "d", "_", "k", "p", "i">>, PyPath, <<"r", "u", "l", "e">>, Null, <<>>),
    \* one business-logic match against two pipeline matches
    ExtractedFunction(<<"l", "o", "a", "d", "_", "k", "p", "i">>, PyPath, <<"p", "d", ".", "r", "e", "a", "d">>, Null, <<>>),
    \* one match on each side
    ExtractedFunction(<<"l", "o", "a", "d", "_", "k", "p", "i">>, PyPath, <<"x">>, Null, <<>>),
    ExtractedSQLBlock(<<"l", "o", "a", "d", "_", "k", "p", "i">>, SqlPath, <<"x">>, Null, <<>>),
    \* no match: load_ is not at the start of the text, rate and increase are
    \* on two lines
    ExtractedFunction(<<"f">>, PyPath, <<"l", "o", "a", "d", "_", "x">>, <<"r", "a", "t", "e", "\n", "i", "n", "c", "r", "e", "a", "s", "e">>, <<>>),
    \* one business-logic match, in the description
    ExtractedSQLBlock(<<"f">>, SqlPath, <<"x">>, <<"p", "o", "l", "i", "c", "y">>, <<>>)
}

\* classify up to the await of the assistant, on the inputs of each entity of
\* the pool and of the trees, with the pattern objects as the module creates
\* them: computed once and looked up by the calls.
PooledSteps ==
    {[input |-> <<e.name, e.sourceCode, DescriptionOf(e), e.businessRuleMarkers>>,
      steps |-> classifyEntity(e, InitialIndexes)] :
        e \in EntityPool \cup UNION {
                 {PythonExtractFromDirectory(t.files)[i] :
                      i \in 1..Len(PythonExtractFromDirectory(t.files))}
                 \cup {SQLExtractFromDirectory(t.files)[i] :
                           i \in 1..Len(SQLExtractFromDirectory(t.files))} :
                 t \in {TreeA, TreeB, TreeC}}}
classifyPooled(entity) ==
    (CHOOSE r \in PooledSteps :
        r.input = <<entity.name, entity.sourceCode, DescriptionOf(entity),
                    entity.businessRuleMarkers>>).steps

\* The classify calls of classifyFunctions / classifySQLBlocks: Promise.all over
\* entities.map(classify...) runs every call, in list order, to its return or to
\* its await of the assistant (NoResult).
RECURSIVE classifyAll(_, _, _)
classifyAll(entities, n, indexes) ==
    IF n = 0 THEN [results |-> <<>>, indexes |-> indexes]
    ELSE LET before == classifyAll(entities, n - 1, indexes)
             steps == classifyEntity(entities[n], before.indexes)
         IN  [results |-> Append(before.results, steps.result), indexes |-> steps.indexes]

NoRun == [useAmp |-> FALSE, saved |-> FALSE]

\* The positions at which a run has ended with a fatal error.
Aborted ==
    {"aborted in DiffTracker", "aborted in computeDiff", "aborted in generate",
     "aborted in saveSnapshot"}

\* No run has started.
NoRunYet ==
    /\ runs = 0
    /\ rpc = "idle"
    /\ rUseAmp = FALSE
    /\ rFunctions = <<>>
    /\ rSQLBlocks = <<>>
    /\ rClassifiedFunctions = <<>>
    /\ rClassifiedSQLBlocks = <<>>
    /\ rPrevious = Null
    /\ rCurrent = Null
    /\ rDiff = NoResult
    /\ sinceEdit = 0
    /\ prevRun = NoRun
    /\ sCalls = 0
    /\ batch = NoBatch
    /\ sqlFile = NoSQLFile
    /\ docs = NoDocs
    /\ wRuns = <<>>
    /\ wEvents = 0
    /\ wServer = ServerUp

InitRunIdle == tree = TreeA /\ NoRunYet

\* The state of a caller that runs no extraction: no working tree is read.
InitNoRun == tree = [commit |-> Undefined, files |-> <<>>] /\ NoRunYet

Init ==
    /\ InitRunIdle
    /\ InitClassifierIdle
    /\ dPrevious = Null
    /\ dCurrent = Null
    /\ dArgs = NoResult
    /\ dResult = NoResult
    /\ dCalls = 0
    /\ latest = NoFile
    /\ history = NoFiles
    /\ now = 0

\* The source tree is edited.
EditSource(t) ==
    /\ tree # t
    /\ tree' = t
    /\ sinceEdit' = 0
    /\ UNCHANGED <<runs, rpc, rUseAmp, rFunctions, rSQLBlocks, rClassifiedFunctions,
                   rClassifiedSQLBlocks, rPrevious, rCurrent, rDiff, prevRun>>
    /\ UNCHANGED <<classifierVars, diffVars, callerVars, hookVars, storeVars>>

\* `npm run extract`: a new process calls extract(options) and constructs the
\* extractors and the classifier.
StartRun(useAmp) ==
    /\ rpc \in {"idle", "done"} \cup Aborted
    /\ runs < MaxRuns
    /\ runs' = runs + 1
    /\ rpc' = "started"
    /\ rUseAmp' = useAmp
    /\ useAmpForAmbiguous' = useAmp
    /\ regexIndexes' = InitialIndexes
    /\ prevRun' = [useAmp |-> rUseAmp, saved |-> rpc = "done"]
    /\ sinceEdit' = IF sinceEdit < 2 THEN sinceEdit + 1 ELSE sinceEdit
    /\ rFunctions' = <<>>
    /\ rSQLBlocks' = <<>>
    /\ rClassifiedFunctions' = <<>>
    /\ rClassifiedSQLBlocks' = <<>>
    /\ rPrevious' = Null
    /\ rCurrent' = Null
    /\ rDiff' = NoResult
    /\ UNCHANGED <<tree, cPending, cLog, cMessages, diffVars, callerVars, hookVars, storeVars>>

\* functions = await pythonExtractor.extractFromDirectory(sourceCodePath).
ExtractPython ==
    /\ rpc = "started"
    /\ rpc' = "python"
    /\ rFunctions' = PythonExtractFromDirectory(tree.files)
    /\ UNCHANGED <<tree, runs, rUseAmp, rSQLBlocks, rClassifiedFunctions,
                   rClassifiedSQLBlocks, rPrevious, rCurrent, rDiff, sinceEdit, prevRun>>
    /\ UNCHANGED <<classifierVars, diffVars, callerVars, hookVars, storeVars>>

\* sqlBlocks = await sqlExtractor.extractFromDirectory(sourceCodePath).
ExtractSQL ==
    /\ rpc = "python"
    /\ rpc' = "sql"
    /\ rSQLBlocks' = SQLExtractFromDirectory(tree.files)
    /\ UNCHANGED <<tree, runs, rUseAmp, rFunctions, rClassifiedFunctions,
                   rClassifiedSQLBlocks, rPrevious, rCurrent, rDiff, sinceEdit, prevRun>>
    /\ UNCHANGED <<classifierVars, diffVars, callerVars, hookVars, storeVars>>

\* classifiedFunctions = await classifier.classifyFunctions(functions).
ClassifyFunctions ==
    /\ rpc = "sql"
    /\ rpc' = "functions classified"
    /\ LET all == classifyAll(rFunctions, Len(rFunctions), regexIndexes)
       IN  /\ \E outcomes \in [AwaitingAmp(all.results, useAmpForAmbiguous) -> AmpOutcomes] :
                 rClassifiedFunctions' =
                     ClassifiedAll(rFunctions, all.results, useAmpForAmbiguous, outcomes)
           /\ regexIndexes' = all.indexes
    /\ UNCHANGED <<tree, runs, rUseAmp, rFunctions, rSQLBlocks,
                   rClassifiedSQLBlocks, rPrevious, rCurrent, rDiff, sinceEdit, prevRun>>
    /\ UNCHANGED <<useAmpForAmbiguous, cPending, cLog, cMessages, diffVars, callerVars, hookVars, storeVars>>

\* classifiedSQLBlocks = await classifier.classifySQLBlocks(sqlBlocks).
ClassifySQLBlocks ==
    /\ rpc = "functions classified"
    /\ rpc' = "classified"
    /\ LET all == classifyAll(rSQLBlocks, Len(rSQLBlocks), regexIndexes)
       IN  /\ \E outcomes \in [AwaitingAmp(all.results, useAmpForAmbiguous) -> AmpOutcomes] :
                 rClassifiedSQLBlocks' =
                     ClassifiedAll(rSQLBlocks, all.results, useAmpForAmbiguous, outcomes)
           /\ regexIndexes' = all.indexes
    /\ UNCHANGED <<tree, runs, rUseAmp, rFunctions, rSQLBlocks,
                   rClassifiedFunctions, rPrevious, rCurrent, rDiff, sinceEdit, prevRun>>
    /\ UNCHANGED <<useAmpForAmbiguous, cPending, cLog, cMessages, diffVars, callerVars, hookVars, storeVars>>

\* previousSnapshot = diffTracker.loadPreviousSnapshot().
LoadPrevious ==
    /\ rpc = "classified"
    /\ rpc' = "loaded"
    /\ rPrevious' = loadPreviousSnapshot
    /\ UNCHANGED <<tree, runs, rUseAmp, rFunctions, rSQLBlocks, rClassifiedFunctions,
                   rClassifiedSQLBlocks, rCurrent, rDiff, sinceEdit, prevRun>>
    /\ UNCHANGED <<classifierVars, diffVars, callerVars, hookVars, storeVars>>

\* currentSnapshot = diffTracker.createSnapshot(..., options.commit); the clock
\* may have advanced since it was last read.
CreateSnapshot(t) ==
    /\ rpc = "loaded"
    /\ rpc' = "created"
    /\ t >= now
    /\ now' = t
    /\ rCurrent' = createSnapshot(rClassifiedFunctions, rClassifiedSQLBlocks, tree.commit, t)
    /\ UNCHANGED <<tree, runs, rUseAmp, rFunctions, rSQLBlocks, rClassifiedFunctions,
                   rClassifiedSQLBlocks, rPrevious, rDiff, sinceEdit, prevRun>>
    /\ UNCHANGED <<classifierVars, diffVars, callerVars, hookVars, latest, history>>

\* computeDiff(previous, current) throws a TypeError: previous is not null and
\* previous.functions or previous.sqlBlocks is undefined, so that .map is read
\* from undefined.
computeDiffThrows(previous) ==
    previous # Null /\ ~({"functions", "sqlBlocks"} \subseteq DOMAIN previous)

\* diff = diffTracker.computeDiff(previousSnapshot, currentSnapshot).
ComputeDiff ==
    /\ rpc = "created"
    /\ ~computeDiffThrows(rPrevious)
    /\ rpc' = "diffed"
    /\ rDiff' = computeDiff(rPrevious, rCurrent)
    /\ UNCHANGED <<tree, runs, rUseAmp, rFunctions, rSQLBlocks, rClassifiedFunctions,
                   rClassifiedSQLBlocks, rPrevious, rCurrent, sinceEdit, prevRun>>
    /\ UNCHANGED <<classifierVars, diffVars, callerVars, hookVars, storeVars>>

\* generator.generate(classifiedFunctions, classifiedSQLBlocks); the output
\* directory is not part of this state.
Generate ==
    /\ rpc = "diffed"
    /\ rpc' = "generated"
    /\ UNCHANGED <<tree, runs, rUseAmp, rFunctions, rSQLBlocks, rClassifiedFunctions,
                   rClassifiedSQLBlocks, rPrevious, rCurrent, rDiff, sinceEdit, prevRun>>
    /\ UNCHANGED <<classifierVars, diffVars, callerVars, hookVars, storeVars>>

\* diffTracker.saveSnapshot(currentSnapshot), with its two reads of the clock.
SaveSnapshot(t1, t2) ==
    /\ rpc = "generated"
    /\ rpc' = "done"
    /\ now <= t1 /\ t1 <= t2
    /\ saveSnapshot(rCurrent, t1, t2)
    /\ UNCHANGED <<tree, runs, rUseAmp, rFunctions, rSQLBlocks, rClassifiedFunctions,
                   rClassifiedSQLBlocks, rPrevious, rCurrent, rDiff, sinceEdit, prevRun>>
    /\ UNCHANGED <<classifierVars, diffVars, callerVars, hookVars>>

\* diffTracker.computeDiff throws: extract rejects, main().catch logs the fatal
\* error and the process exits with code 1.
ComputeDiffThrows ==
    /\ rpc = "created"
    /\ computeDiffThrows(rPrevious)
    /\ rpc' = "aborted in computeDiff"
    /\ UNCHANGED <<tree, runs, rUseAmp, rFunctions, rSQLBlocks, rClassifiedFunctions,
                   rClassifiedSQLBlocks, rPrevious, rCurrent, rDiff, sinceEdit, prevRun>>
    /\ UNCHANGED <<classifierVars, diffVars, callerVars, hookVars, storeVars>>

\* new DiffTracker(snapshotDir) throws: mkdirSync cannot create the directory.
DiffTrackerThrows ==
    /\ rpc = "classified"
    /\ rpc' = "aborted in DiffTracker"
    /\ UNCHANGED <<tree, runs, rUseAmp, rFunctions, rSQLBlocks, rClassifiedFunctions,
                   rClassifiedSQLBlocks, rPrevious, rCurrent, rDiff, sinceEdit, prevRun>>
    /\ UNCHANGED <<classifierVars, diffVars, callerVars, hookVars, storeVars>>

\* Faulty variant of GenerateThrows: the failure takes latest.json with it.
GenerateThrowsStoreLost ==
    /\ rpc = "diffed"
    /\ rpc' = "aborted in generate"
    /\ latest' = NoFile
    /\ UNCHANGED <<tree, runs, rUseAmp, rFunctions, rSQLBlocks, rClassifiedFunctions,
                   rClassifiedSQLBlocks, rPrevious, rCurrent, rDiff, sinceEdit, prevRun>>
    /\ UNCHANGED <<classifierVars, diffVars, callerVars, hookVars, history, now>>

\* generator.generate throws: a directory or a file of the output cannot be written.
GenerateThrows ==
    /\ rpc = "diffed"
    /\ rpc' = "aborted in generate"
    /\ UNCHANGED <<tree, runs, rUseAmp, rFunctions, rSQLBlocks, rClassifiedFunctions,
                   rClassifiedSQLBlocks, rPrevious, rCurrent, rDiff, sinceEdit, prevRun>>
    /\ UNCHANGED <<classifierVars, diffVars, callerVars, hookVars, storeVars>>

\* diffTracker.saveSnapshot throws in one of its two writeFileSync calls: in the
\* history write, nothing being written, or in the write of latest.json, which
\* is left as it was or truncated.
SaveSnapshotThrows(t1, t2, inHistoryWrite, truncated) ==
    /\ rpc = "generated"
    /\ rpc' = "aborted in saveSnapshot"
    /\ now <= t1 /\ t1 <= t2
    /\ now' = t2
    /\ IF inHistoryWrite
       THEN /\ latest # NoFile
            /\ ~truncated
            /\ UNCHANGED <<latest, history>>
       ELSE /\ history' = IF latest # NoFile
                          THEN WriteFile(history, HistoryTag(latest, t1, t2), latest)
                          ELSE history
            /\ latest' = IF truncated THEN NotJSON ELSE latest
    /\ UNCHANGED <<tree, runs, rUseAmp, rFunctions, rSQLBlocks, rClassifiedFunctions,
                   rClassifiedSQLBlocks, rPrevious, rCurrent, rDiff, sinceEdit, prevRun>>
    /\ UNCHANGED <<classifierVars, diffVars, callerVars, hookVars>>

Instants == 0..MaxClock

Next ==
    \/ \E t \in Trees : EditSource(t)
    \/ \E useAmp \in BOOLEAN : StartRun(useAmp)
    \/ ExtractPython
    \/ ExtractSQL
    \/ ClassifyFunctions
    \/ ClassifySQLBlocks
    \/ LoadPrevious
    \/ \E t \in Instants : CreateSnapshot(t)
    \/ ComputeDiff
    \/ Generate
    \/ \E t1, t2 \in Instants : SaveSnapshot(t1, t2)

Spec == Init /\ [][Next]_vars

(***************************************************************************)
(* Specification SpecFaults: extraction runs on a snapshot directory whose *)
(* latest.json may be foreign, with the failures a run can meet.           *)
(***************************************************************************)
InitFaults ==
    /\ tree \in {TreeA, TreeC}
    /\ NoRunYet
    /\ InitClassifierIdle
    /\ dPrevious = Null
    /\ dCurrent = Null
    /\ dArgs = NoResult
    /\ dResult = NoResult
    /\ dCalls = 0
    /\ latest \in {NoFile, NotJSON, JSONNull, JSONObject(<<>>)}
    /\ history = NoFiles
    /\ now = 0

NextFaults ==
    \/ \E useAmp \in BOOLEAN : StartRun(useAmp)
    \/ ExtractPython
    \/ ExtractSQL
    \/ ClassifyFunctions
    \/ ClassifySQLBlocks
    \/ LoadPrevious
    \/ \E t \in Instants : CreateSnapshot(t)
    \/ DiffTrackerThrows
    \/ ComputeDiff
    \/ ComputeDiffThrows
    \/ Generate
    \/ GenerateThrows
    \/ \E t1, t2 \in Instants : SaveSnapshot(t1, t2)
    \/ \E t1, t2 \in Instants : \E inHistoryWrite, truncated \in BOOLEAN :
          SaveSnapshotThrows(t1, t2, inHistoryWrite, truncated)

SpecFaults == InitFaults /\ [][NextFaults]_vars

(***************************************************************************)
(* Specification SpecExtract: the two extractFromDirectory calls of a run  *)
(* on bounded source trees, some of whose files cannot be read or parsed.  *)
(***************************************************************************)

FilePool == {
    \* a Python file with two functions and one embedded SQL block
    SourceFile(PyPath, "py",
        <<ExtractedFunction(<<"f">>, PyPath, <<"x">>, Null, <<>>),
          ExtractedFunction(<<"g">>, PyPath, <<"x">>, Null, <<>>)>>,
        <<ExtractedSQLBlock(<<"q">>, PyPath, <<"x">>, Null, <<>>)>>, FALSE, FALSE),
    \* a Python file that cannot be parsed as Python; its embedded SQL is found
    SourceFile(<<"c", ".", "p", "y">>, "py",
        <<ExtractedFunction(<<"f">>, <<"c", ".", "p", "y">>, <<"x">>, Null, <<>>)>>,
        <<ExtractedSQLBlock(<<"q">>, <<"c", ".", "p", "y">>, <<"x">>, Null, <<>>)>>, TRUE, FALSE),
    \* a Python file that cannot be read
    SourceFile(<<"c", ".", "p", "y">>, "py",
        <<ExtractedFunction(<<"g">>, <<"c", ".", "p", "y">>, <<"x">>, Null, <<>>)>>,
        <<ExtractedSQLBlock(<<"q">>, <<"c", ".", "p", "y">>, <<"y">>, Null, <<>>)>>, TRUE, TRUE),
    \* an SQL file with two blocks
    SourceFile(SqlPath, "sql", <<>>,
        <<ExtractedSQLBlock(<<"q">>, SqlPath, <<"x">>, Null, <<>>),
          ExtractedSQLBlock(<<"q">>, SqlPath, <<"y">>, Null, <<>>)>>, FALSE, FALSE),
    \* an SQL file that cannot be read
    SourceFile(SqlPath, "sql", <<>>,
        <<ExtractedSQLBlock(<<"r">>, SqlPath, <<"x">>, Null, <<>>)>>, FALSE, TRUE)
}

InitExtract ==
    /\ \E n \in 0..MaxFiles : \E files \in [1..n -> FilePool] :
          tree = [commit |-> Undefined, files |-> files]
    /\ runs = 1
    /\ rpc = "started"
    /\ rUseAmp = FALSE
    /\ rFunctions = <<>>
    /\ rSQLBlocks = <<>>
    /\ rClassifiedFunctions = <<>>
    /\ rClassifiedSQLBlocks = <<>>
    /\ rPrevious = Null
    /\ rCurrent = Null
    /\ rDiff = NoResult
    /\ sinceEdit = 1
    /\ prevRun = NoRun
    /\ sCalls = 0
    /\ batch = NoBatch
    /\ sqlFile = NoSQLFile
    /\ docs = NoDocs
    /\ wRuns = <<>>
    /\ wEvents = 0
    /\ wServer = ServerUp
    /\ InitClassifierIdle
    /\ dPrevious = Null
    /\ dCurrent = Null
    /\ dArgs = NoResult
    /\ dResult = NoResult
    /\ dCalls = 0
    /\ latest = NoFile
    /\ history = NoFiles
    /\ now = 0

NextExtract ==
    \/ ExtractPython
    \/ ExtractSQL

SpecExtract == InitExtract /\ [][NextExtract]_vars

(***************************************************************************)
(* Specification SpecClassify: classify calls on entities of a fixed pool. *)
(***************************************************************************)

InitClassify ==
    /\ useAmpForAmbiguous \in BOOLEAN
    /\ regexIndexes = InitialIndexes
    /\ cPending = NoEntity
    /\ cLog = <<>>
    /\ cMessages = 0
    /\ dPrevious = Null
    /\ dCurrent = Null
    /\ dArgs = NoResult
    /\ dResult = NoResult
    /\ dCalls = 0
    /\ latest = NoFile
    /\ history = NoFiles
    /\ now = 0
    /\ InitNoRun

Returned(entity, asked, outcome, result) ==
    [entity |-> entity, useAmp |-> useAmpForAmbiguous, asked |-> asked,
     outcome |-> outcome, result |-> result]

NoOutcome == [type |-> "none", is_error |-> FALSE, result |-> JSONText("")]

\* new LogicClassifier({useAmpForAmbiguous: b}); the pattern tables are the module's.
Construct(b) ==
    /\ cPending = NoEntity
    /\ useAmpForAmbiguous # b
    /\ useAmpForAmbiguous' = b
    /\ UNCHANGED <<regexIndexes, cPending, cLog, cMessages, diffVars, callerVars, hookVars, storeVars, runVars>>

\* classifyFunction(entity) / classifySQLBlock(entity), up to its return or to the
\* await of the assistant.
ClassifyCall(entity) ==
    /\ cPending = NoEntity
    /\ Len(cLog) < MaxClassify
    /\ LET steps == IF regexIndexes = InitialIndexes
                    THEN classifyPooled(entity)
                    ELSE classifyEntity(entity, regexIndexes) IN
        /\ regexIndexes' = steps.indexes
        /\ IF steps.result # NoResult
           THEN /\ cLog' = Append(cLog, Returned(entity, FALSE, NoOutcome, steps.result))
                /\ cPending' = cPending
           ELSE IF useAmpForAmbiguous
           THEN /\ cPending' = entity
                /\ cLog' = cLog
           ELSE /\ cLog' = Append(cLog, Returned(entity, FALSE, NoOutcome, DefaultResult))
                /\ cPending' = cPending
    /\ UNCHANGED <<useAmpForAmbiguous, cMessages, diffVars, callerVars, hookVars, storeVars, runVars>>

\* executePrompt's `for await` loop takes a message that is no result message
\* and goes on to the next.
AmpMessage ==
    /\ cPending # NoEntity
    /\ cMessages < MaxMessages
    /\ cMessages' = cMessages + 1
    /\ UNCHANGED <<useAmpForAmbiguous, regexIndexes, cPending, cLog, diffVars, callerVars,
                   hookVars, storeVars, runVars>>

\* Faulty variant of AmpSettles: after a failure of the assistant the call goes
\* back to wait for the assistant again.
AmpSettlesRetrying(outcome) ==
    /\ cPending # NoEntity
    /\ IF executePrompt(outcome) = Thrown
       THEN UNCHANGED <<cLog, cPending>>
       ELSE /\ cLog' = Append(cLog, Returned(cPending, TRUE, outcome, classifyAfterAmp(outcome)))
            /\ cPending' = NoEntity
    /\ cMessages' = 0
    /\ UNCHANGED <<useAmpForAmbiguous, regexIndexes, diffVars, callerVars, hookVars, storeVars, runVars>>

\* The assistant call of the pending classify settles, and classify returns.
AmpSettles(outcome) ==
    /\ cPending # NoEntity
    /\ cLog' = Append(cLog, Returned(cPending, TRUE, outcome, classifyAfterAmp(outcome)))
    /\ cPending' = NoEntity
    /\ cMessages' = 0
    /\ UNCHANGED <<useAmpForAmbiguous, regexIndexes, diffVars, callerVars, hookVars, storeVars, runVars>>

NextClassify ==
    \/ \E b \in BOOLEAN : Construct(b)
    \/ \E entity \in EntityPool : ClassifyCall(entity)
    \/ AmpMessage
    \/ \E outcome \in AmpOutcomes : AmpSettles(outcome)

SpecClassify == InitClassify /\ [][NextClassify]_vars

\* The assistant's stream comes to one of AmpOutcomes: a result message, its
\* end, or a failure of the transport.
SpecClassifyLive ==
    SpecClassify /\ WF_vars(\E outcome \in AmpOutcomes : AmpSettles(outcome))

(***************************************************************************)
(* Specification SpecBatch: one classifyFunctions / classifySQLBlocks call *)
(* whose assistant calls settle one by one, in any order.                  *)
(***************************************************************************)
\* Faulty variant of PromiseAllSettles: the value of a settled promise is put
\* in the first slot still empty, so the results are in order of completion.
PromiseAllSettlesInArrivalOrder(b, i, outcome) ==
    LET slot == CHOOSE k \in 1..Len(b.results) :
                    /\ b.results[k] = NoResult
                    /\ \A j \in 1..(k - 1) : b.results[j] # NoResult
    IN  [b EXCEPT !.results[slot] = classifyAfterAmp(outcome),
                  !.outcomes[i] = outcome,
                  !.order = Append(b.order, i)]

\* Promise.all: the value of the i-th promise is the i-th element of the array,
\* whenever the promise settles. The promise is classify awaiting the assistant.
PromiseAllSettles(b, i, outcome) ==
    [b EXCEPT !.results[i] = classifyAfterAmp(outcome),
              !.outcomes[i] = outcome,
              !.order = Append(b.order, i)]

\* classifier.classifyFunctions(entities) / classifySQLBlocks(entities), up to the
\* await of Promise.all: entities.map runs every classify call in list order to
\* its return or to its await of the assistant.
ClassifyBatch(entities) ==
    /\ batch = NoBatch
    /\ LET all == classifyAll(entities, Len(entities), regexIndexes) IN
        /\ regexIndexes' = all.indexes
        /\ batch' = [entities |-> entities,
                     results |-> [i \in 1..Len(entities) |->
                                     IF all.results[i] = NoResult /\ ~useAmpForAmbiguous
                                     THEN DefaultResult ELSE all.results[i]],
                     outcomes |-> [i \in 1..Len(entities) |-> NoOutcome],
                     order |-> <<>>,
                     done |-> FALSE,
                     returned |-> <<>>]
    /\ UNCHANGED <<useAmpForAmbiguous, cPending, cLog, cMessages, sCalls, sqlFile, docs, diffVars,
                   hookVars, storeVars, runVars>>

\* The assistant call of the i-th entity of the batch settles.
BatchSettles(i, outcome) ==
    /\ batch # NoBatch
    /\ i \in 1..Len(batch.entities)
    /\ batch.results[i] = NoResult
    /\ batch' = PromiseAllSettles(batch, i, outcome)
    /\ UNCHANGED <<classifierVars, sCalls, sqlFile, docs, diffVars, hookVars, storeVars, runVars>>

\* Every promise has settled: Promise.all resolves and the batch call returns.
BatchReturns ==
    /\ batch # NoBatch
    /\ ~batch.done
    /\ \A i \in 1..Len(batch.entities) : batch.results[i] # NoResult
    /\ batch' = [batch EXCEPT !.done = TRUE, !.returned =
                    [i \in 1..Len(batch.entities) |->
                        Classified(batch.entities[i], batch.results[i])]]
    /\ UNCHANGED <<classifierVars, sCalls, sqlFile, docs, diffVars, hookVars, storeVars, runVars>>

NextBatch ==
    \/ \E n \in 0..MaxBatch : \E entities \in [1..n -> EntityPool] : ClassifyBatch(entities)
    \/ \E i \in 1..MaxBatch : \E outcome \in AmpOutcomes : BatchSettles(i, outcome)
    \/ BatchReturns

SpecBatch == InitClassify /\ [][NextBatch]_vars

(***************************************************************************)
(* The SQL extractor (sql-extractor.ts) on the text of one dedicated SQL   *)
(* file. A string is the sequence of its characters.                       *)
(***************************************************************************)
\* The characters String.prototype.trim removes and \s matches.
WhiteSpace == {" ", "\t", "\r", "\n"}

\* String.prototype.trim.
trim(s) ==
    LET kept == {i \in 1..Len(s) : s[i] \notin WhiteSpace}
    IN  IF kept = {} THEN <<>> ELSE SubSeq(s, Min(kept), Max(kept))

startsWith(s, prefix) == Len(s) >= Len(prefix) /\ SubSeq(s, 1, Len(prefix)) = prefix
endsWith(s, suffix) ==
    Len(s) >= Len(suffix) /\ SubSeq(s, Len(s) - Len(suffix) + 1, Len(s)) = suffix

\* String.prototype.toUpperCase.
toUpperCase(s) ==
    [i \in 1..Len(s) |->
        IF \E u \in UpperCase : LowerOf[u] = s[i]
        THEN CHOOSE u \in UpperCase : LowerOf[u] = s[i]
        ELSE s[i]]

\* s.split('\n'): the pieces between the line feeds, one more than line feeds.
split(s) ==
    LET cuts == {0, Len(s) + 1} \cup {i \in 1..Len(s) : s[i] = "\n"}
        cut(k) == CHOOSE c \in cuts : Cardinality({d \in cuts : d < c}) = k
    IN  [k \in 1..(Cardinality(cuts) - 1) |-> SubSeq(s, cut(k - 1) + 1, cut(k) - 1)]

\* Faulty variant of SplitStep: a '--' line that ends with ';' closes the
\* statement as well.
SplitStepOnComments(acc, line, i) ==
    LET trimmed == trim(line)
        a1 == [acc EXCEPT !.currentStatement = acc.currentStatement \o line \o <<"\n">>]
    IN  IF endsWith(trimmed, <<";">>)
        THEN [statements |-> Append(a1.statements,
                                [text |-> trim(a1.currentStatement), startLine |-> i]),
              currentStatement |-> <<>>, startLine |-> i, inStatement |-> FALSE]
        ELSE a1

\* One iteration of the loop of splitSQLStatements, on line i (1-based).
SplitStep(acc, line, i) ==
    LET trimmed == trim(line) IN
    IF startsWith(trimmed, <<"-", "-">>) \/ trimmed = <<>>
    THEN [acc EXCEPT !.currentStatement = acc.currentStatement \o line \o <<"\n">>]
    ELSE LET a1 == [acc EXCEPT
                       !.startLine = IF acc.inStatement THEN acc.startLine ELSE i,
                       !.inStatement = TRUE,
                       !.currentStatement = acc.currentStatement \o line \o <<"\n">>]
         IN  IF endsWith(trimmed, <<";">>)
             THEN [statements |->
                       IF trim(a1.currentStatement) # <<>>
                       THEN Append(a1.statements,
                               [text |-> trim(a1.currentStatement),
                                startLine |-> a1.startLine])
                       ELSE a1.statements,
                   currentStatement |-> <<>>,
                   startLine |-> a1.startLine,
                   inStatement |-> FALSE]
             ELSE a1

RECURSIVE SplitLoop(_, _)
SplitLoop(lines, n) ==
    IF n = 0
    THEN [statements |-> <<>>, currentStatement |-> <<>>, startLine |-> 1,
          inStatement |-> FALSE]
    ELSE SplitStep(SplitLoop(lines, n - 1), lines[n], n)

splitSQLStatements(source) ==
    LET acc == SplitLoop(split(source), Len(split(source)))
    IN  IF trim(acc.currentStatement) # <<>>
        THEN Append(acc.statements,
                [text |-> trim(acc.currentStatement), startLine |-> acc.startLine])
        ELSE acc.statements

\* /^CREATE\s+(OR\s+REPLACE\s+)?<KIND>/.test(normalized).
CreateKindTest(normalized, kind) ==
    LET wordAt(i, w) == i > 0 /\ i + Len(w) - 1 <= Len(normalized)
                              /\ SubSeq(normalized, i, i + Len(w) - 1) = w
        \* the position after \s+ matched at i, or 0 when \s+ does not match there
        afterSpaces(i) ==
            IF i > 0 /\ i <= Len(normalized) /\ normalized[i] \in WhiteSpace
            THEN Min({j \in i..(Len(normalized) + 1) :
                         j = Len(normalized) + 1 \/ normalized[j] \notin WhiteSpace})
            ELSE 0
        j == afterSpaces(7)
        k == IF wordAt(j, <<"O", "R">>) THEN afterSpaces(j + 2) ELSE 0
        l == IF wordAt(k, <<"R", "E", "P", "L", "A", "C", "E">>) THEN afterSpaces(k + 7) ELSE 0
    IN  /\ wordAt(1, <<"C", "R", "E", "A", "T", "E">>)
        /\ (wordAt(j, kind) \/ wordAt(l, kind))

determineSQLType(sql) ==
    LET normalized == trim(toUpperCase(sql)) IN
    IF CreateKindTest(normalized, <<"P", "R", "O", "C", "E", "D", "U", "R", "E">>) THEN "procedure"
    ELSE IF CreateKindTest(normalized, <<"F", "U", "N", "C", "T", "I", "O", "N">>) THEN "function"
    ELSE IF CreateKindTest(normalized, <<"V", "I", "E", "W">>) THEN "view"
    ELSE IF CreateKindTest(normalized, <<"T", "R", "I", "G", "G", "E", "R">>) THEN "trigger"
    ELSE "query"

\* Array.prototype.join(separator) on strings.
RECURSIVE joinWith(_, _)
joinWith(list, separator) ==
    IF list = <<>> THEN <<>>
    ELSE IF Len(list) = 1 THEN list[1]
    ELSE list[1] \o separator \o joinWith(Tail(list), separator)

\* One iteration of the loop of extractDescription; comments.done after `break`.
DescriptionStep(acc, line) ==
    LET trimmed == trim(line)
        \* trimmed.replace(/^--\s*/, '')
        comment == trim(SubSeq(trimmed, 3, Len(trimmed)))
    IN  IF acc.done THEN acc
        ELSE IF startsWith(trimmed, <<"-", "-">>)
        THEN IF ~startsWith([i \in 1..Len(comment) |-> toLowerCase(comment[i])],
                            <<"b", "u", "s", "i", "n", "e", "s", "s", "_", "r", "u", "l", "e">>)
             THEN [acc EXCEPT !.comments = Append(acc.comments, comment)]
             ELSE acc
        ELSE IF trimmed # <<>> /\ ~startsWith(trimmed, <<"/", "*">>)
        THEN [acc EXCEPT !.done = TRUE]
        ELSE acc

RECURSIVE DescriptionLoop(_, _)
DescriptionLoop(lines, n) ==
    IF n = 0 THEN [comments |-> <<>>, done |-> FALSE]
    ELSE DescriptionStep(DescriptionLoop(lines, n - 1), lines[n])

\* extractDescription(sql).
extractDescription(sql) ==
    LET comments == DescriptionLoop(split(sql), Len(split(sql))).comments
    IN  IF Len(comments) > 0 THEN joinWith(comments, <<" ">>) ELSE Null

\* parseStatement(sql, startLine, filePath): the fields computed from the
\* position and from the leading lines of the statement.
parseStatement(sql, startLine) ==
    [startLine |-> startLine,
     endLine |-> startLine + Len(split(sql)) - 1,
     sqlType |-> determineSQLType(sql),
     description |-> extractDescription(sql),
     sourceCode |-> sql]

\* extractFromSource(source, filePath).
extractFromSource(source) ==
    [n \in 1..Len(splitSQLStatements(source)) |->
        parseStatement(splitSQLStatements(source)[n].text,
                       splitSQLStatements(source)[n].startLine)]

(***************************************************************************)
(* Specification SpecSQL: extractFromFile on SQL files of bounded length.  *)
(***************************************************************************)
\* The lines a file is made of.
LinePool == {
    \* a blank line
    <<>>,
    \* a '--' comment, and one that ends with ';'
    <<"-", "-", " ", "d", "e">>,
    <<"-", "-", "x", ";">>,
    \* a business-rule marker
    <<"-", "-", " ", "B", "u", "s", "i", "n", "e", "s", "s", "_", "r", "u", "l", "e">>,
    \* a line that opens a block comment
    <<"/", "*", "c">>,
    \* code without and with a terminator, followed by a blank
    <<"a">>,
    <<" ", "b", ";", " ">>,
    \* the keywords of a view, on one line and on two
    <<"c", "r", "e", "a", "t", "e">>,
    <<"V", "i", "e", "w", " ", "v", ";">>,
    <<"c", "r", "e", "a", "t", "e", " ", "o", "r", "\t", "r", "e", "p", "l", "a", "c", "e",
      " ", "t", "r", "i", "g", "g", "e", "r", " ", "t", ";">>
}

\* source = readFileSync(filePath, 'utf-8').
ReadSQLFile(source) ==
    /\ sqlFile = NoSQLFile
    /\ sqlFile' = [source |-> source, extracted |-> FALSE, blocks |-> <<>>]
    /\ UNCHANGED <<classifierVars, sCalls, batch, docs, diffVars, hookVars, storeVars, runVars>>

\* return this.extractFromSource(source, filePath).
ExtractFromSource ==
    /\ sqlFile # NoSQLFile
    /\ ~sqlFile.extracted
    /\ sqlFile' = [sqlFile EXCEPT !.extracted = TRUE,
                                  !.blocks = extractFromSource(sqlFile.source)]
    /\ UNCHANGED <<classifierVars, sCalls, batch, docs, diffVars, hookVars, storeVars, runVars>>

InitSQL == InitClassify /\ useAmpForAmbiguous

NextSQL ==
    \/ \E n \in 1..MaxLines : \E lines \in [1..n -> LinePool] : ReadSQLFile(joinWith(lines, <<"\n">>))
    \/ ExtractFromSource

SpecSQL == InitSQL /\ [][NextSQL]_vars

(***************************************************************************)
(* MarkdownGenerator (markdown-generator.ts). A generated file is held as  *)
(* what it documents: the source file and the entities of its sections.    *)
(***************************************************************************)
\* filePath.replace(/\//g, '-').replace(/\.(py|sql)$/, '.md').
fileToMarkdownPath(filePath) ==
    LET dashed == [i \in 1..Len(filePath) |-> IF filePath[i] = "/" THEN "-" ELSE filePath[i]]
    IN  IF endsWith(dashed, <<".", "p", "y">>)
        THEN SubSeq(dashed, 1, Len(dashed) - 3) \o <<".", "m", "d">>
        ELSE IF endsWith(dashed, <<".", "s", "q", "l">>)
        THEN SubSeq(dashed, 1, Len(dashed) - 4) \o <<".", "m", "d">>
        ELSE dashed

\* groupByFile(items): the groups in the order Object.entries lists them, that
\* of the first item of each file.
RECURSIVE groupByFile(_, _)
groupByFile(items, n) ==
    IF n = 0 THEN <<>>
    ELSE LET grouped == groupByFile(items, n - 1)
             at == {g \in 1..Len(grouped) : grouped[g].file = items[n].filePath}
         IN  IF at = {}
             THEN Append(grouped, [file |-> items[n].filePath, items |-> <<items[n]>>])
             ELSE [grouped EXCEPT ![Min(at)].items = Append(grouped[Min(at)].items, items[n])]

\* path.join(outputDir, category, name), relative to outputDir.
OutputPath(category, name) == [dir |-> category, name |-> name]

\* The loop `for (const [file, items] of Object.entries(byFile))` of
\* generateBusinessLogicDocs / generatePipelineCodeDocs: one writeFile per group,
\* of generateFunctionsDocs or generateSQLDocs (kind).
RECURSIVE WriteGroups(_, _, _, _, _)
WriteGroups(files, category, kind, byFile, n) ==
    IF n = 0 THEN files
    ELSE WriteFile(WriteGroups(files, category, kind, byFile, n - 1),
                   OutputPath(category, fileToMarkdownPath(byFile[n].file)),
                   [kind |-> kind, file |-> byFile[n].file,
                    sections |-> [i \in 1..Len(byFile[n].items) |-> byFile[n].items[i].name]])

\* generateBusinessLogicDocs / generatePipelineCodeDocs(functions, sqlBlocks), the
\* same code for the two categories, and generateCategoryIndex at its end.
generateCategoryDocs(files, category, functions, sqlBlocks) ==
    LET functionsByFile == groupByFile(functions, Len(functions))
        sqlByFile == groupByFile(sqlBlocks, Len(sqlBlocks))
        f1 == WriteGroups(files, category, "functions", functionsByFile, Len(functionsByFile))
        f2 == WriteGroups(f1, category, "sql", sqlByFile, Len(sqlByFile))
    IN  WriteFile(f2, OutputPath(category, <<"README.md">>),
                  [kind |-> "category index", file |-> <<>>,
                   sections |-> <<Len(functions), Len(sqlBlocks)>>])

\* items.filter(i => i.classificationResult.classification === label).
FilterLabel(items, label) ==
    SelectSeq(items, LAMBDA i : i.classificationResult.classification = label)

\* generate(functions, sqlBlocks) on an output directory holding files.
generate(files, functions, sqlBlocks) ==
    LET f1 == generateCategoryDocs(files, "business-logic",
                  FilterLabel(functions, "business_logic"),
                  FilterLabel(sqlBlocks, "business_logic"))
        f2 == generateCategoryDocs(f1, "pipeline-code",
                  FilterLabel(functions, "pipeline_code"),
                  FilterLabel(sqlBlocks, "pipeline_code"))
    IN  WriteFile(f2, OutputPath("", <<"index.md">>),
                  [kind |-> "index", file |-> <<>>,
                   sections |-> <<Len(functions), Len(sqlBlocks)>>])

(***************************************************************************)
(* Specification SpecDocs: one generate call on bounded entity lists.      *)
(***************************************************************************)
\* Classified functions of a.py and d/a.py, and classified SQL blocks embedded
\* in a.py and of a.sql, of either label.
DocFunctions ==
    {Classified(ExtractedFunction(<<"f">>, p, <<"x">>, Null, <<>>),
                [DefaultResult EXCEPT !.classification = c]) :
        p \in {PyPath, <<"d", "/", "a", ".", "p", "y">>}, c \in Classifications}
DocSQLBlocks ==
    {Classified(ExtractedSQLBlock(<<"q">>, p, <<"x">>, Null, <<>>),
                [DefaultResult EXCEPT !.classification = c]) :
        p \in {PyPath, <<"a", ".", "s", "q", "l">>}, c \in Classifications}

\* generator.generate(functions, sqlBlocks) on an empty output directory.
GenerateDocs(functions, sqlBlocks) ==
    /\ docs = NoDocs
    /\ docs' = [functions |-> functions, sqlBlocks |-> sqlBlocks,
                files |-> generate(NoFiles, functions, sqlBlocks)]
    /\ UNCHANGED <<classifierVars, sCalls, batch, sqlFile, diffVars, hookVars, storeVars, runVars>>

NextDocs ==
    \/ \E n \in 0..MaxEntities, m \in 0..MaxEntities :
       \E functions \in [1..n -> DocFunctions], sqlBlocks \in [1..m -> DocSQLBlocks] :
          GenerateDocs(functions, sqlBlocks)

SpecDocs == InitSQL /\ [][NextDocs]_vars

(***************************************************************************)
(* Specification SpecDiff: computeDiff applied to bounded snapshot pairs.  *)
(***************************************************************************)
SeqsOfLen(S, n) == [1..n -> S]

InitDiffInputs ==
    \E n1 \in 0..MaxRecords :
    \E n2 \in 0..(MaxRecords - n1) :
    \E n3 \in 0..(MaxRecords - n1 - n2) :
    \E n4 \in 0..(MaxRecords - n1 - n2 - n3) :
    \E pf \in SeqsOfLen(FunctionSnapshot, n1), ps \in SeqsOfLen(SQLBlockSnapshot, n2),
       cf \in SeqsOfLen(FunctionSnapshot, n3), cs \in SeqsOfLen(SQLBlockSnapshot, n4) :
        /\ dPrevious = ExtractionSnapshot(toISOString(0), <<"c", "1">>, pf, ps)
        /\ dCurrent = ExtractionSnapshot(toISOString(1), <<"c", "2">>, cf, cs)

InitDiff ==
    /\ InitDiffInputs
    /\ dArgs = NoResult
    /\ dResult = NoResult
    /\ dCalls = 0
    /\ latest = NoFile
    /\ history = NoFiles
    /\ now = 1
    /\ InitClassifierIdle
    /\ InitNoRun

\* diffTracker.computeDiff(previous, current) on the caller's snapshots.
DiffCall(p, c) ==
    /\ dCalls < MaxCalls
    /\ dCalls' = dCalls + 1
    /\ dArgs' = [previous |-> p, current |-> c]
    /\ dResult' = computeDiff(p, c)
    /\ UNCHANGED <<dPrevious, dCurrent, latest, history, now>>
    /\ UNCHANGED <<classifierVars, runVars, callerVars, hookVars>>

DiffPrevious == DiffCall(dPrevious, dCurrent)
DiffNull == DiffCall(Null, dCurrent)
DiffSelf == DiffCall(dCurrent, dCurrent)

\* The caller saves the current snapshot to an empty store between two diffs.
DiffSave ==
    /\ latest = NoFile
    /\ saveSnapshot(dCurrent, now, now)
    /\ UNCHANGED <<diffVars, callerVars, hookVars, classifierVars, runVars>>

NextDiff ==
    \/ DiffPrevious
    \/ DiffNull
    \/ DiffSelf
    \/ DiffSave

SpecDiff == InitDiff /\ [][NextDiff]_vars

(***************************************************************************)
(* Specification SpecStore: saveSnapshot and loadPreviousSnapshot called   *)
(* on one snapshot directory, with snapshots of a fixed pool.              *)
(***************************************************************************)
\* A signature holding the characters JSON escapes: f("\<line feed>).
QuotedSignature == <<"f", "(", "\"", "\\", "\n", ")">>

SnapshotBodies == {
    \* nothing extracted, no commit given
    [commit |-> Undefined, functions |-> <<>>, sqlBlocks |-> <<>>],
    \* no commit given, one function
    [commit |-> Undefined,
     functions |-> <<[name |-> <<"f">>, filePath |-> PyPath, signature |-> QuotedSignature,
                      classification |-> "business_logic", hash |-> "h1"]>>,
     sqlBlocks |-> <<>>],
    \* a commit, one function, two SQL blocks under one key
    [commit |-> <<"c", "1">>,
     functions |-> <<[name |-> <<"f">>, filePath |-> PyPath, signature |-> QuotedSignature,
                      classification |-> "pipeline_code", hash |-> "h2"]>>,
     sqlBlocks |-> <<[name |-> <<"q">>, filePath |-> SqlPath, sqlType |-> "query",
                      classification |-> "business_logic", hash |-> "h1"],
                     [name |-> <<"q">>, filePath |-> SqlPath, sqlType |-> "query",
                      classification |-> "pipeline_code", hash |-> "h2"]>>]
}

SnapshotPool ==
    {ExtractionSnapshot(toISOString(t), b.commit, b.functions, b.sqlBlocks) :
        t \in Instants, b \in SnapshotBodies}


InitStore ==
    /\ latest \in {NoFile, NotJSON, JSONNull, JSONObject(<<>>)}
    /\ history = NoFiles
    /\ now = 0
    /\ dPrevious = Null
    /\ dCurrent = Null
    /\ dArgs = NoResult
    /\ dResult = NoResult
    /\ dCalls = 0
    /\ InitClassifierIdle
    /\ InitNoRun

\* diffTracker.saveSnapshot(snapshot) by a caller holding snapshot.
StoreSave(snapshot, t1, t2) ==
    /\ sCalls < MaxSaves
    /\ sCalls' = sCalls + 1
    /\ now <= t1 /\ t1 <= t2
    /\ saveSnapshot(snapshot, t1, t2)
    /\ rCurrent' = snapshot
    /\ rpc' = "saved"
    /\ UNCHANGED <<docs, batch, sqlFile>>
    /\ UNCHANGED <<tree, runs, rUseAmp, rFunctions, rSQLBlocks, rClassifiedFunctions,
                   rClassifiedSQLBlocks, rPrevious, rDiff, sinceEdit, prevRun>>
    /\ UNCHANGED <<classifierVars, diffVars, hookVars>>

\* diffTracker.loadPreviousSnapshot() by the same caller.
StoreLoad ==
    /\ rpc # "loaded"
    /\ rpc' = "loaded"
    /\ rPrevious' = loadPreviousSnapshot
    /\ UNCHANGED <<tree, runs, rUseAmp, rFunctions, rSQLBlocks, rClassifiedFunctions,
                   rClassifiedSQLBlocks, rCurrent, rDiff, sinceEdit, prevRun>>
    /\ UNCHANGED <<classifierVars, diffVars, storeVars, callerVars, hookVars>>

NextStore ==
    \/ \E snapshot \in SnapshotPool : \E t1, t2 \in Instants : StoreSave(snapshot, t1, t2)
    \/ StoreLoad

SpecStore == InitStore /\ [][NextStore]_vars

\* --------------------------------------------------------------------------
\* The webhook handler and the extraction processes it starts.

\* A ref is the sequence of its segments: refs/heads/main is <<"refs", "heads", "main">>.
RefMain == <<"refs", "heads", "main">>
MainBranches == {RefMain, <<"refs", "heads", "master">>}

\* a || b of JavaScript for a value that is a string or undefined.
OrElse(a, b) == IF a = Undefined THEN b ELSE a

\* The child process spawn('npm', ['run', 'extract']) starts, with
\* SOURCE_COMMIT_SHA in its environment; it has not touched the store yet.
ChildProcess(ref, commitSha) ==
    [pc |-> "spawned", ref |-> ref, commit |-> commitSha, previous |-> Null, current |-> Null]

\* runExtraction(ref, commitSha, commitMessage): the processes after the call.
runExtraction(ref, commitSha) == Append(wRuns, ChildProcess(ref, commitSha))

\* handlePush(payload): the processes after the call.
handlePush(payload) ==
    IF OrElse(payload.ref, RefMain) \in MainBranches
    THEN runExtraction(OrElse(payload.ref, RefMain),
                       OrElse(payload.head_commit_id, <<"u", "n", "k", "n", "o", "w", "n">>))
    ELSE wRuns

\* handleRepositoryDispatch(payload): the processes after the call.
handleRepositoryDispatch(payload) ==
    runExtraction(OrElse(payload.client_ref, <<"main">>), OrElse(payload.client_commit_sha, <<"u", "n", "k", "n", "o", "w", "n">>))

Payload(ref, commitSha) ==
    [ref |-> ref, head_commit_id |-> commitSha,
     client_ref |-> Undefined, client_commit_sha |-> commitSha]

\* The payloads requests carry: a ref or none, a commit or none.
Payloads ==
    <<Payload(RefMain, <<"c", "1">>), Payload(RefMain, Undefined),
      Payload(<<"refs", "heads", "master">>, <<"c", "1">>),
      Payload(<<"refs", "heads", "master">>, Undefined),
      Payload(<<"refs", "heads", "dev">>, <<"c", "1">>),
      Payload(<<"refs", "heads", "dev">>, Undefined),
      Payload(Undefined, <<"c", "1">>), Payload(Undefined, Undefined)>>

\* handleRequest on a POST to /webhook whose signature was verified and whose
\* body was parsed to payload: the switch on the event header, then 200.
HandleRequest(event, payload) ==
    /\ wEvents < MaxEvents
    /\ wEvents' = wEvents + 1
    /\ wServer' = wServer
    /\ wRuns' = CASE event = "push" -> handlePush(payload)
                  [] event = "repository_dispatch" -> handleRepositoryDispatch(payload)
                  [] OTHER -> wRuns
    /\ UNCHANGED <<runVars, classifierVars, diffVars, storeVars, callerVars>>


\* Process i runs extract() up to computeDiff: loadPreviousSnapshot, then
\* createSnapshot at clock reading t, in one synchronous stretch.
ChildLoad(i, t) ==
    /\ wRuns[i].pc = "spawned"
    /\ now <= t
    /\ now' = t
    /\ wRuns' = [wRuns EXCEPT ![i] =
                    [@ EXCEPT !.pc = "loaded",
                              !.previous = loadPreviousSnapshot,
                              !.current =
                                  ExtractionSnapshot(toISOString(t), wRuns[i].commit,
                                      <<[name |-> <<"f">>, filePath |-> PyPath,
                                         signature |-> <<"f", "(", ")">>,
                                         classification |-> "business_logic",
                                         hash |-> "h1"]>>,
                                      <<>>)]]
    /\ UNCHANGED <<latest, history, wEvents, wServer>>
    /\ UNCHANGED <<runVars, classifierVars, diffVars, callerVars>>

\* Process i, its documentation written, runs saveSnapshot and exits.
ChildSave(i, t1, t2) ==
    /\ wRuns[i].pc = "loaded"
    /\ now <= t1 /\ t1 <= t2
    /\ saveSnapshot(wRuns[i].current, t1, t2)
    /\ wRuns' = [wRuns EXCEPT ![i].pc = "saved"]
    /\ UNCHANGED <<wEvents, wServer>>
    /\ UNCHANGED <<runVars, classifierVars, diffVars, callerVars>>

InitHook ==
    /\ latest = NoFile
    /\ history = NoFiles
    /\ now = 0
    /\ dPrevious = Null
    /\ dCurrent = Null
    /\ dArgs = NoResult
    /\ dResult = NoResult
    /\ dCalls = 0
    /\ InitClassifierIdle
    /\ InitNoRun

NextHook ==
    \/ \E event \in {"push", "repository_dispatch", "ping"} : \E k \in DOMAIN Payloads : HandleRequest(event, Payloads[k])
    \/ \E i \in DOMAIN wRuns : \E t \in Instants : ChildLoad(i, t)
    \/ \E i \in DOMAIN wRuns : \E t1, t2 \in Instants : ChildSave(i, t1, t2)

SpecHook == InitHook /\ [][NextHook]_vars

(***************************************************************************)
(* Specification SpecWebhook: the webhook handler with WEBHOOK_SECRET set, *)
(* on signed and unsigned requests; the processes it spawns take no step.  *)
(***************************************************************************)
\* crypto.createHmac('sha256', WEBHOOK_SECRET).update(body).digest('hex') for
\* the body numbered k: strings of one length, different for different bodies.
hmacHex(k) == <<"0", <<"0", "1", "2", "3", "4", "5", "6", "7", "8", "9">>[k + 1]>>

\* 'sha256=' + the digest.
expectedSignature(k) == <<"s", "h", "a", "2", "5", "6", "=">> \o hmacHex(k)

\* crypto.timingSafeEqual(Buffer.from(a), Buffer.from(b)): a RangeError when the
\* two buffers differ in byte length.
timingSafeEqual(a, b) ==
    IF Len(a) # Len(b) THEN [threw |-> TRUE, value |-> FALSE]
    ELSE [threw |-> FALSE, value |-> a = b]

\* verifySignature(body, signature) with WEBHOOK_SECRET set, on body k.
verifySignature(k, signature) ==
    IF signature = Undefined \/ signature = <<>>
    THEN [threw |-> FALSE, value |-> FALSE]
    ELSE timingSafeEqual(signature, expectedSignature(k))

\* The values of the x-hub-signature-256 header sent with body k: none, the
\* empty string, the expected one, the one of another body, one without digest
\* and one with a longer digest.
Signatures(k) ==
    <<Undefined, <<>>, expectedSignature(k), expectedSignature((k + 1) % 2),
      <<"s", "h", "a", "2", "5", "6", "=">>,
      expectedSignature(k) \o <<"0">>>>

\* The `end` listener of a POST to /webhook with body k (0: a text that is no
\* JSON, else the text of Payloads[k]), signature header s and event header
\* event. An exception of the listener is caught by nobody: the process exits.
SignedRequest(k, s, event) ==
    LET verified == verifySignature(k, Signatures(k)[s])
        started == CASE event = "push" -> handlePush(Payloads[k])
                     [] event = "repository_dispatch" -> handleRepositoryDispatch(Payloads[k])
                     [] OTHER -> wRuns
        answer(status, spawned) ==
            [alive |-> TRUE, body |-> k, header |-> s, event |-> event,
             status |-> status, spawned |-> spawned]
    IN  /\ wServer.alive
        /\ wEvents < MaxEvents
        /\ IF verified.threw
           THEN /\ wServer' = [answer(0, 0) EXCEPT !.alive = FALSE]
                /\ UNCHANGED <<wRuns, wEvents>>
           ELSE IF ~verified.value
           THEN /\ wServer' = answer(401, 0)
                /\ UNCHANGED <<wRuns, wEvents>>
           ELSE IF k = 0
           THEN /\ wServer' = answer(400, 0)
                /\ UNCHANGED <<wRuns, wEvents>>
           ELSE /\ wServer' = answer(200, Len(started) - Len(wRuns))
                /\ wRuns' = started
                /\ wEvents' = wEvents + 1
        /\ UNCHANGED <<runVars, classifierVars, diffVars, storeVars, callerVars>>

NextWebhook ==
    \/ \E k \in 0..Len(Payloads) : \E s \in DOMAIN Signatures(k) :
       \E event \in {"push", "repository_dispatch", "ping"} : SignedRequest(k, s, event)

SpecWebhook == InitHook /\ [][NextWebhook]_vars

(***************************************************************************)
(* Properties of the classifier, checked under SpecClassify.               *)
(***************************************************************************)
Calls == 1..Len(cLog)
SameInput(e1, e2) ==
    /\ e1.name = e2.name
    /\ e1.sourceCode = e2.sourceCode
    /\ DescriptionOf(e1) = DescriptionOf(e2)
    /\ e1.businessRuleMarkers = e2.businessRuleMarkers
ScoreOf(entity, patterns) ==
    countPatternMatches(textToAnalyze(entity.name, entity.sourceCode, DescriptionOf(entity)),
                        patterns, [k \in 1..Len(patterns) |-> 0]).count

\* C1: a classify call on an entity with at least one business-rule marker
\* returns business_logic with confidence high and never calls the assistant,
\* whatever the patterns match and whether the assistant is enabled.
C1_MarkersForceBusinessLogic ==
    /\ \A i \in Calls :
          cLog[i].entity.businessRuleMarkers # <<>>
          => /\ cLog[i].result.classification = "business_logic"
             /\ cLog[i].result.confidence = "high"
             /\ ~cLog[i].asked
    /\ cPending # NoEntity => cPending.businessRuleMarkers = <<>>

C1_Witness ==
    \E i, j \in Calls :
        /\ cLog[i].entity.businessRuleMarkers # <<>>
        /\ cLog[i].entity.kind = "function"
        /\ cLog[i].useAmp
        /\ ScoreOf(cLog[i].entity, PIPELINE_CODE_PATTERNS) > 0
        /\ ScoreOf(cLog[i].entity, BUSINESS_LOGIC_PATTERNS) = 0
        /\ cLog[i].result.classification = "business_logic"
        /\ cLog[j].entity.businessRuleMarkers # <<>>
        /\ cLog[j].entity.kind = "sql"
        /\ ~cLog[j].useAmp
        /\ ScoreOf(cLog[j].entity, PIPELINE_CODE_PATTERNS)
              = ScoreOf(cLog[j].entity, BUSINESS_LOGIC_PATTERNS)
        /\ cLog[j].result.confidence = "high"

\* C2: two classify calls made with the assistant disabled on entities with the
\* same name, source text, description and markers return the same
\* classification, confidence and reason, whatever was classified in between.
C2_DeterministicWithoutAssistant ==
    \A i, j \in Calls :
        (~cLog[i].useAmp /\ ~cLog[j].useAmp /\ SameInput(cLog[i].entity, cLog[j].entity))
        => cLog[i].result = cLog[j].result

C2_Witness ==
    \E i, j \in Calls :
        /\ i < j
        /\ ~cLog[i].useAmp /\ ~cLog[j].useAmp
        /\ cLog[i].entity # cLog[j].entity
        /\ SameInput(cLog[i].entity, cLog[j].entity)
        /\ ScoreOf(cLog[i].entity, BUSINESS_LOGIC_PATTERNS) > 0
        /\ cLog[i].result = DefaultResult
        /\ cLog[j].result = DefaultResult

(***************************************************************************)
(* Properties of computeDiff, checked under SpecDiff.                      *)
(***************************************************************************)
Kinds == {"functions", "sqlBlocks"}
Range(seq) == {seq[i] : i \in 1..Len(seq)}
KeysOf(list) == {Key(list[i]) : i \in 1..Len(list)}
IsLast(list, i) == \A j \in (i + 1)..Len(list) : Key(list[j]) # Key(list[i])
LastWithKey(list, k) == list[CHOOSE i \in 1..Len(list) : Key(list[i]) = k /\ IsLast(list, i)]
HasDuplicateKey(list) ==
    \E i, j \in 1..Len(list) : i < j /\ Key(list[i]) = Key(list[j]) /\ list[i] # list[j]
ModifiedKeys(res, kind) == {Key(e.current) : e \in Range(res.modified[kind])}
ReclassifiedKeys(res, kind) == {e.filePath \o <<":">> \o e.name : e \in Range(res.reclassified[kind])}
Partitions == {"added", "removed", "modified", "reclassified"}
AllPartitionsEmpty(res) == \A part \in Partitions, kind \in Kinds : res[part][kind] = <<>>

DiffCalled == dArgs # NoResult
DiffCalledOnSnapshots == DiffCalled /\ dArgs.previous # Null

\* C4: computeDiff(S, S), and computeDiff of two snapshots with the same records,
\* returns empty added, removed, modified and reclassified lists for both kinds,
\* also when S holds several records under one key.
C4_IdenticalSnapshotsEmptyDiff ==
    (/\ DiffCalledOnSnapshots
     /\ dArgs.previous.functions = dArgs.current.functions
     /\ dArgs.previous.sqlBlocks = dArgs.current.sqlBlocks)
    => AllPartitionsEmpty(dResult)

C4_Witness ==
    /\ DiffCalledOnSnapshots
    /\ dArgs.previous = dArgs.current
    /\ HasDuplicateKey(dArgs.current.sqlBlocks)
    /\ dArgs.current.functions # <<>>
    /\ AllPartitionsEmpty(dResult)

\* C5: computeDiff(null, S) returns every function record and every SQL-block
\* record of S as added, in order and with duplicates of a key, and nothing else.
C5_FirstRunAddsEverything ==
    (DiffCalled /\ dArgs.previous = Null)
    => /\ dResult.added.functions = dArgs.current.functions
       /\ dResult.added.sqlBlocks = dArgs.current.sqlBlocks
       /\ \A part \in Partitions \ {"added"}, kind \in Kinds : dResult[part][kind] = <<>>

C5_Witness ==
    /\ DiffCalled
    /\ dArgs.previous = Null
    /\ HasDuplicateKey(dArgs.current.functions)
    /\ dResult.added.functions = dArgs.current.functions
    /\ Len(dResult.added.functions) >= 2

\* C6 as stated: every previous/current pair with equal key, differing hash and
\* equal label is in modified, and reclassified has no entry for its key.
C6_Original ==
    DiffCalledOnSnapshots =>
        \A kind \in Kinds :
        \A i \in 1..Len(dArgs.previous[kind]), j \in 1..Len(dArgs.current[kind]) :
            LET p == dArgs.previous[kind][i]
                c == dArgs.current[kind][j]
            IN  (Key(p) = Key(c) /\ p.hash # c.hash /\ p.classification = c.classification)
                => /\ [previous |-> p, current |-> c] \in Range(dResult.modified[kind])
                   /\ Key(c) \notin ReclassifiedKeys(dResult, kind)

\* C6 as amended: the pair made of the last previous record and the last current
\* record of a key, when their hashes differ and their labels are equal, is in
\* modified, and reclassified has no entry for that key.
C6_ModifiedOnly ==
    DiffCalledOnSnapshots =>
        \A kind \in Kinds :
        \A i \in 1..Len(dArgs.previous[kind]), j \in 1..Len(dArgs.current[kind]) :
            LET p == dArgs.previous[kind][i]
                c == dArgs.current[kind][j]
            IN  (/\ IsLast(dArgs.previous[kind], i) /\ IsLast(dArgs.current[kind], j)
                 /\ Key(p) = Key(c) /\ p.hash # c.hash
                 /\ p.classification = c.classification)
                => /\ [previous |-> p, current |-> c] \in Range(dResult.modified[kind])
                   /\ Key(c) \notin ReclassifiedKeys(dResult, kind)

C6_Witness ==
    /\ DiffCalledOnSnapshots
    /\ HasDuplicateKey(dArgs.previous.functions)
    /\ \E p \in Range(dArgs.previous.functions), c \in Range(dArgs.current.functions) :
          /\ p.hash # c.hash /\ p.classification = c.classification
          /\ dResult.modified.functions = <<[previous |-> p, current |-> c]>>
    /\ dResult.reclassified.functions = <<>>

\* C7 as stated: every previous/current pair with equal key, equal hash and
\* differing label has its entry in reclassified and no entry in modified.
C7_Original ==
    DiffCalledOnSnapshots =>
        \A kind \in Kinds :
        \A i \in 1..Len(dArgs.previous[kind]), j \in 1..Len(dArgs.current[kind]) :
            LET p == dArgs.previous[kind][i]
                c == dArgs.current[kind][j]
            IN  (Key(p) = Key(c) /\ p.hash = c.hash /\ p.classification # c.classification)
                => /\ [name |-> c.name, filePath |-> c.filePath,
                       from |-> p.classification, to |-> c.classification]
                          \in Range(dResult.reclassified[kind])
                   /\ Key(c) \notin ModifiedKeys(dResult, kind)

\* C7 as amended: for the last previous record and the last current record of a
\* key, with equal hashes and differing labels, reclassified holds the entry
\* {name, filePath, from, to} and modified has no entry for that key.
C7_ReclassifiedOnly ==
    DiffCalledOnSnapshots =>
        \A kind \in Kinds :
        \A i \in 1..Len(dArgs.previous[kind]), j \in 1..Len(dArgs.current[kind]) :
            LET p == dArgs.previous[kind][i]
                c == dArgs.current[kind][j]
            IN  (/\ IsLast(dArgs.previous[kind], i) /\ IsLast(dArgs.current[kind], j)
                 /\ Key(p) = Key(c) /\ p.hash = c.hash
                 /\ p.classification # c.classification)
                => /\ [name |-> c.name, filePath |-> c.filePath,
                       from |-> p.classification, to |-> c.classification]
                          \in Range(dResult.reclassified[kind])
                   /\ Key(c) \notin ModifiedKeys(dResult, kind)

C7_Witness ==
    /\ DiffCalledOnSnapshots
    /\ HasDuplicateKey(dArgs.current.sqlBlocks)
    /\ \E p \in Range(dArgs.previous.sqlBlocks), c \in Range(dArgs.current.sqlBlocks) :
          /\ p.hash = c.hash /\ p.classification # c.classification
          /\ dResult.reclassified.sqlBlocks =
                <<[name |-> c.name, filePath |-> c.filePath,
                   from |-> p.classification, to |-> c.classification]>>
    /\ dResult.modified.sqlBlocks = <<>>

\* C8: with a previous snapshot, a key present in both snapshots is in modified
\* exactly when the hashes of its two records differ and in reclassified exactly
\* when their labels differ (the records being those the key maps to); it is
\* never added or removed.
C8_ModifiedAndReclassified ==
    DiffCalledOnSnapshots =>
        \A kind \in Kinds :
        \A k \in KeysOf(dArgs.previous[kind]) \cap KeysOf(dArgs.current[kind]) :
            LET p == LastWithKey(dArgs.previous[kind], k)
                c == LastWithKey(dArgs.current[kind], k)
            IN  /\ (k \in ModifiedKeys(dResult, kind)) <=> (p.hash # c.hash)
                /\ (k \in ReclassifiedKeys(dResult, kind))
                      <=> (p.classification # c.classification)
                /\ k \notin KeysOf(dResult.added[kind])
                /\ k \notin KeysOf(dResult.removed[kind])

C8_Witness ==
    /\ DiffCalledOnSnapshots
    /\ \E p \in Range(dArgs.previous.functions), c \in Range(dArgs.current.functions) :
          /\ Key(p) = Key(c) /\ p.hash # c.hash /\ p.classification # c.classification
          /\ Key(c) \in ModifiedKeys(dResult, "functions")
          /\ Key(c) \in ReclassifiedKeys(dResult, "functions")
    /\ dArgs.current.sqlBlocks # <<>>

\* C9: with a previous snapshot, added holds one record for each current key
\* absent from previous and removed one record for each previous key absent from
\* current; no key is both added and removed, and no added or removed key is in
\* modified or reclassified.
C9_AddedAndRemoved ==
    DiffCalledOnSnapshots =>
        \A kind \in Kinds :
            LET prevKeys == KeysOf(dArgs.previous[kind])
                currKeys == KeysOf(dArgs.current[kind])
                added == dResult.added[kind]
                removed == dResult.removed[kind]
            IN  /\ KeysOf(added) = currKeys \ prevKeys
                /\ KeysOf(removed) = prevKeys \ currKeys
                /\ Len(added) = Cardinality(KeysOf(added))
                /\ Len(removed) = Cardinality(KeysOf(removed))
                /\ Range(added) \subseteq Range(dArgs.current[kind])
                /\ Range(removed) \subseteq Range(dArgs.previous[kind])
                /\ KeysOf(added) \cap KeysOf(removed) = {}
                /\ (KeysOf(added) \cup KeysOf(removed))
                      \cap (ModifiedKeys(dResult, kind) \cup ReclassifiedKeys(dResult, kind)) = {}

C9_Witness ==
    /\ DiffCalledOnSnapshots
    /\ Len(dResult.added.functions) = 1
    /\ Len(dResult.removed.functions) = 1
    /\ Len(dArgs.current.functions) = 2
    /\ HasDuplicateKey(dArgs.current.functions)

RunDiffed == rpc \in {"diffed", "generated", "done"}

\* This run and the run before it both started after the last edit of the
\* source tree, the run before it saved its snapshot, and this run has its diff.
SecondRunOverUnchangedTree ==
    RunDiffed /\ runs >= 2 /\ sinceEdit = 2 /\ prevRun.saved

ReachesAssistantStep(entity) == classifyPooled(entity).result = NoResult

\* C3 as stated: the second of two consecutive runs over an unchanged source
\* tree computes a diff whose four partitions are empty for both kinds.
C3_Original == SecondRunOverUnchangedTree => AllPartitionsEmpty(rDiff)

\* C3 as amended: the same, when the assistant fallback is disabled in both runs
\* or no entity of the tree reaches the assistant step.
C3_UnchangedTreeEmptyDiff ==
    (/\ SecondRunOverUnchangedTree
     /\ \/ ~rUseAmp /\ ~prevRun.useAmp
        \/ \A e \in Range(PythonExtractFromDirectory(tree.files))
                     \cup Range(SQLExtractFromDirectory(tree.files)) :
              ~ReachesAssistantStep(e))
    => AllPartitionsEmpty(rDiff)

C3_Witness ==
    /\ SecondRunOverUnchangedTree
    /\ rpc = "done"
    /\ ~rUseAmp /\ ~prevRun.useAmp
    /\ \E e \in Range(PythonExtractFromDirectory(tree.files)) : ReachesAssistantStep(e)
    /\ HasDuplicateKey(rCurrent.sqlBlocks)
    /\ rPrevious # Null
    /\ rPrevious.timestamp # rCurrent.timestamp
    /\ AllPartitionsEmpty(rDiff)

(***************************************************************************)
(* Properties of the snapshot store, checked under SpecStore.              *)
(***************************************************************************)
\* The loaded structure has the fields of the snapshot, read as properties.
SameSnapshot(loaded, snapshot) ==
    /\ loaded # Null
    /\ Get(loaded, "timestamp") = snapshot.timestamp
    /\ Get(loaded, "commit") = snapshot.commit
    /\ Get(loaded, "functions") = snapshot.functions
    /\ Get(loaded, "sqlBlocks") = snapshot.sqlBlocks

\* C11: loadPreviousSnapshot after saveSnapshot(S), with no save in between,
\* returns a snapshot with the timestamp, the commit and the function and
\* SQL-block records of S, in the same order.
C11_RoundTrip ==
    (rpc = "loaded" /\ sCalls > 0) => SameSnapshot(rPrevious, rCurrent)

C11_Witness ==
    /\ rpc = "loaded"
    /\ sCalls = 2
    /\ rCurrent.commit = Undefined
    /\ Len(rCurrent.functions) = 1
    /\ rCurrent.functions[1].signature = QuotedSignature
    /\ "commit" \notin DOMAIN rPrevious
    /\ rPrevious.functions[1].signature = QuotedSignature

(***************************************************************************)
(* Properties of the extraction run with failures, checked under           *)
(* SpecFaults.                                                             *)
(***************************************************************************)
AfterLoad == {"loaded", "created", "diffed", "generated", "done"} \cup Aborted

\* What loadPreviousSnapshot returned has the lists of an ExtractionSnapshot.
IsSnapshot(previous) ==
    previous # Null /\ {"timestamp", "functions", "sqlBlocks"} \subseteq DOMAIN previous

\* C12 as stated: a run that found latest.json absent, not decodable or decoded
\* to something that is no ExtractionSnapshot does not fail in computeDiff, and
\* its diff reports every current entity as added and nothing else.
C12_Original ==
    (rpc \in AfterLoad /\ ~IsSnapshot(rPrevious))
    => /\ rpc # "aborted in computeDiff"
       /\ RunDiffed => rDiff = FirstRunDiff(rCurrent)

\* The part of C12 the code keeps: latest.json absent, not decodable, or the
\* JSON text null.
C12_NoHistoryWhenNull ==
    (rpc \in AfterLoad /\ rPrevious = Null)
    => /\ rpc # "aborted in computeDiff"
       /\ RunDiffed => rDiff = FirstRunDiff(rCurrent)

C12_Witness ==
    /\ rpc = "done"
    /\ runs = 1
    /\ rPrevious = Null
    /\ history # NoFiles
    /\ rDiff.added.functions = rCurrent.functions
    /\ Len(rCurrent.sqlBlocks) = 2

(***************************************************************************)
(* Properties of the extractors' directory loops, checked under            *)
(* SpecExtract.                                                            *)
(***************************************************************************)
RECURSIVE Concat(_)
Concat(lists) == IF lists = <<>> THEN <<>> ELSE Head(lists) \o Concat(Tail(lists))

\* The entity lists of the files of one extension that did not fail, in file order.
ListsOf(files, ext, failed(_), entities(_)) ==
    LET kept == SelectSeq(files, LAMBDA f : f.ext = ext /\ ~failed(f))
    IN  [i \in 1..Len(kept) |-> entities(kept[i])]

\* C14: extractFromDirectory returns exactly the concatenation, in file order,
\* of the complete entity lists of the selected files that did not throw: for
\* the Python extractor the functions of the .py files, for the SQL extractor
\* the blocks of the .sql files followed by the embedded blocks of the .py files.
C14_FailedFilesSkipped ==
    /\ rpc \in {"python", "sql"} =>
          rFunctions = Concat(ListsOf(tree.files, "py",
                                      LAMBDA f : f.pythonThrows, LAMBDA f : f.functions))
    /\ rpc = "sql" =>
          rSQLBlocks = Concat(ListsOf(tree.files, "sql",
                                      LAMBDA f : f.sqlThrows, LAMBDA f : f.blocks))
                       \o Concat(ListsOf(tree.files, "py",
                                         LAMBDA f : f.sqlThrows, LAMBDA f : f.blocks))

C14_Witness ==
    /\ rpc = "sql"
    /\ Len(tree.files) = 3
    /\ tree.files[1].ext = "py" /\ tree.files[1].pythonThrows /\ ~tree.files[1].sqlThrows
    /\ tree.files[2].ext = "sql" /\ tree.files[2].sqlThrows
    /\ tree.files[3].ext = "py" /\ ~tree.files[3].pythonThrows
    /\ rFunctions = tree.files[3].functions
    /\ rSQLBlocks = tree.files[1].blocks \o tree.files[3].blocks

\* The assistant call made for a classified entity failed: the result carries
\* confidence low though the assistant was enabled.
ClassifiedAfterFailure(entity) ==
    ReachesAssistantStep(entity) /\ entity.classificationResult.confidence = "low"

\* C13 as stated: a run ends with a fatal error only in a write to the snapshot
\* store; a run that is done has classified every extracted entity and has its
\* snapshot in latest.json.
C13_Original ==
    /\ rpc \in Aborted => rpc \in {"aborted in DiffTracker", "aborted in saveSnapshot"}
    /\ rpc = "done" =>
          /\ Len(rClassifiedFunctions) = Len(rFunctions)
          /\ Len(rClassifiedSQLBlocks) = Len(rSQLBlocks)
          /\ latest = JSONStringify(rCurrent)

\* A run over a tree with unreadable files and a failed assistant call is done.
C13_Witness ==
    /\ rpc = "done"
    /\ tree = TreeC
    /\ rUseAmp
    /\ Len(rFunctions) = 2
    /\ ClassifiedAfterFailure(rClassifiedFunctions[1])
    /\ latest = JSONStringify(rCurrent)

\* C16 as stated: no step deletes a history record or replaces its content by a
\* different one, also when two snapshots carry the same timestamp.
C16_Original ==
    [][\A tag \in DOMAIN history :
          tag \in DOMAIN history' /\ history'[tag] = history[tag]]_vars

\* Three saves have left two history records behind.
C16_Witness ==
    /\ sCalls = 3
    /\ Cardinality(DOMAIN history) = 2

\* The processes that have loaded the previous snapshot and not yet saved theirs.
HoldingStore == {i \in DOMAIN wRuns : wRuns[i].pc = "loaded"}

\* C15 as stated: at most one extraction run at a time is between its
\* loadPreviousSnapshot and the end of its saveSnapshot.
C15_Original == Cardinality(HoldingStore) <= 1

\* Two runs have both saved, and both had found no previous snapshot: the one
\* that saved second replaced a snapshot it never compared with.
C15_Witness ==
    \E i, j \in DOMAIN wRuns :
        /\ i < j
        /\ wRuns[i].pc = "saved" /\ wRuns[j].pc = "saved"
        /\ wRuns[i].previous = Null /\ wRuns[j].previous = Null

\* The two scores of each entity of the pool, and of one entity.
PooledScores ==
    {[entity |-> e,
      businessLogic |-> countPatternMatches(
          textToAnalyze(e.name, e.sourceCode, DescriptionOf(e)),
          BUSINESS_LOGIC_PATTERNS, InitialIndexes.businessLogic).count,
      pipelineCode |-> countPatternMatches(
          textToAnalyze(e.name, e.sourceCode, DescriptionOf(e)),
          PIPELINE_CODE_PATTERNS, InitialIndexes.pipelineCode).count] : e \in EntityPool}
BusinessLogicScore(entity) == (CHOOSE r \in PooledScores : r.entity = entity).businessLogic
PipelineCodeScore(entity) == (CHOOSE r \in PooledScores : r.entity = entity).pipelineCode
NoMarkers(entity) == entity.businessRuleMarkers = <<>>
Higher(a, b) == IF a >= b THEN a ELSE b
Lower(a, b) == IF a <= b THEN a ELSE b

\* C19: for an entity without markers whose two scores differ, the side with the
\* higher score is returned and the assistant is not called; the confidence is
\* high exactly when the lower score is 0 and the higher at least 2, and medium
\* in every other case.
C19_DifferingScores ==
    /\ \A c \in Calls :
          LET entity == cLog[c].entity
              b == BusinessLogicScore(entity)
              p == PipelineCodeScore(entity)
              result == cLog[c].result
          IN  (NoMarkers(entity) /\ b # p) =>
                 /\ ~cLog[c].asked
                 /\ result.classification = IF b > p THEN "business_logic" ELSE "pipeline_code"
                 /\ result.confidence = IF Lower(b, p) = 0 /\ Higher(b, p) >= 2
                                        THEN "high" ELSE "medium"
                 /\ result.confidence = "high" <=> (Lower(b, p) = 0 /\ Higher(b, p) >= 2)
    /\ cPending # NoEntity =>
          BusinessLogicScore(cPending) = PipelineCodeScore(cPending)

\* Two calls with the assistant enabled have returned: one on an entity scoring
\* 2 against 1, one on an entity scoring 0 against 2.
C19_Witness ==
    /\ Len(cLog) = 2
    /\ \A c \in Calls : cLog[c].useAmp /\ NoMarkers(cLog[c].entity)
    /\ BusinessLogicScore(cLog[1].entity) = 2 /\ PipelineCodeScore(cLog[1].entity) = 1
    /\ BusinessLogicScore(cLog[2].entity) = 0 /\ PipelineCodeScore(cLog[2].entity) = 2

\* C20: for an entity without markers whose two scores are equal, the call goes
\* to the assistant exactly when the assistant is enabled; with the assistant
\* disabled the result is pipeline_code with confidence low.
C20_EqualScores ==
    /\ \A c \in Calls :
          LET entity == cLog[c].entity
              result == cLog[c].result
          IN  (NoMarkers(entity) /\ BusinessLogicScore(entity) = PipelineCodeScore(entity)) =>
                 /\ cLog[c].asked <=> cLog[c].useAmp
                 /\ ~cLog[c].useAmp =>
                       /\ result.classification = "pipeline_code"
                       /\ result.confidence = "low"
    /\ cPending # NoEntity => useAmpForAmbiguous

\* Two calls on entities with equal scores have returned, one scoring 1 on each
\* side with the assistant disabled, one scoring 0 with the assistant asked.
C20_Witness ==
    /\ Len(cLog) = 2
    /\ \A c \in Calls : NoMarkers(cLog[c].entity)
    /\ BusinessLogicScore(cLog[1].entity) = 1 /\ PipelineCodeScore(cLog[1].entity) = 1
    /\ ~cLog[1].useAmp /\ ~cLog[1].asked
    /\ BusinessLogicScore(cLog[2].entity) = 0 /\ PipelineCodeScore(cLog[2].entity) = 0
    /\ cLog[2].useAmp /\ cLog[2].asked

\* The assistant call failed: a transport failure, an error reported by the
\* collaborator, a stream without a result message, a response that is no JSON
\* object, or a label outside the two valid ones.
AmpFailed(outcome) ==
    \/ outcome.type \in {"throw", "end of stream"}
    \/ outcome.is_error
    \/ outcome.result.text # "json"
    \/ outcome.result.classification \notin Classifications

\* The failure reached classify as an exception of classifyWithAmp.
AmpThrew(outcome) == outcome.type = "throw" \/ outcome.is_error

\* What classifyWithAmp returns from its own catch block.
ParseFailureResult ==
    ClassificationResult("pipeline_code", "low",
        Reason("AI classification failed, defaulting to pipeline_code", 0, 0, <<>>))

\* C18 as stated: whenever the assistant was asked and failed, the result is
\* the step-5 default, reason included.
C18_Original ==
    \A c \in Calls :
        (cLog[c].asked /\ AmpFailed(cLog[c].outcome)) => cLog[c].result = DefaultResult

\* C18, amended: whenever the assistant was asked and failed, the result is
\* pipeline_code with confidence low; it is the step-5 default, reason included,
\* when the failure was thrown (collaborator error, transport failure), and
\* carries the reason 'AI classification failed, defaulting to pipeline_code'
\* when the response could not be used (no result, no JSON, invalid label).
C18_FailedAssistantDefaults ==
    \A c \in Calls :
        (cLog[c].asked /\ AmpFailed(cLog[c].outcome)) =>
            /\ cLog[c].result.classification = "pipeline_code"
            /\ cLog[c].result.confidence = "low"
            /\ cLog[c].result = IF AmpThrew(cLog[c].outcome)
                                THEN DefaultResult ELSE ParseFailureResult

\* Two assistant calls have failed: one with an invalid label, one with an
\* error reported by the collaborator.
C18_Witness ==
    /\ Len(cLog) = 2
    /\ cLog[1].asked /\ cLog[1].outcome.type = "result" /\ ~cLog[1].outcome.is_error
    /\ cLog[1].outcome.result = JSONText("other")
    /\ cLog[2].asked /\ cLog[2].outcome.is_error

\* The log after one more call on entity has returned.
OneMoreResult(entity) ==
    /\ Len(cLog') = Len(cLog) + 1
    /\ SubSeq(cLog', 1, Len(cLog)) = cLog
    /\ cLog'[Len(cLog')].entity = entity
    /\ cLog'[Len(cLog')].result.classification \in Classifications
    /\ cLog'[Len(cLog')].result.confidence \in {"high", "medium", "low"}

\* One step of a classify call: a call that waits for the assistant takes a
\* message that is no result and goes on waiting, or returns one result; a call
\* that starts returns one result or goes to wait for the assistant; results
\* returned are never revised.
OneResultPerCall ==
    /\ cPending # NoEntity =>
          \/ cPending' = cPending /\ cLog' = cLog /\ cMessages' = cMessages + 1
          \/ cPending' = NoEntity /\ OneMoreResult(cPending)
    /\ cPending = NoEntity =>
          \/ cPending' = NoEntity /\ cLog' = cLog
          \/ cPending' = NoEntity /\ OneMoreResult(cLog'[Len(cLog')].entity)
          \/ cPending' # NoEntity /\ cLog' = cLog

\* C17: every classify call ends with exactly one ClassificationResult and never
\* goes back to an earlier step, whatever the assistant does: a call waiting for
\* the assistant returns, and each step of a call is a step forward.
C17_CallTerminatesOnce ==
    /\ [][OneResultPerCall]_vars
    /\ (cPending # NoEntity) ~> (cPending = NoEntity)

\* Two calls have returned, one after the assistant's stream ended without a
\* result message and one after the transport failed.
C17_Witness ==
    /\ Len(cLog) = 2
    /\ cLog[1].asked /\ cLog[1].outcome.type = "end of stream"
    /\ cLog[2].asked /\ cLog[2].outcome.type = "throw"


(***************************************************************************)
(* Batch classification.                                                   *)
(***************************************************************************)
\* What a classify call made on the entity alone returns, the assistant
\* answering with the outcome when it is asked.
ResultAlone(entity, useAmp, outcome) ==
    LET steps == classifyPooled(entity) IN
    IF steps.result # NoResult THEN steps.result
    ELSE IF useAmp THEN classifyAfterAmp(outcome) ELSE DefaultResult

BatchReturned == batch # NoBatch /\ batch.done

\* C21: a batch call returns one classified entity per input entity, in input
\* order, each carrying the result a classify call on that entity alone gives
\* with that entity's own assistant outcome, in whatever order the assistant
\* calls settled and whatever the outcomes of the other entities were.
C21_BatchOnePerEntityInOrder ==
    BatchReturned =>
        /\ Len(batch.returned) = Len(batch.entities)
        /\ \A i \in 1..Len(batch.entities) :
              batch.returned[i] =
                  Classified(batch.entities[i],
                      ResultAlone(batch.entities[i], useAmpForAmbiguous, batch.outcomes[i]))

\* A batch of two returned whose second assistant call settled first, the first
\* one failing and the second one giving a classification.
C21_Witness ==
    /\ BatchReturned
    /\ batch.order = <<2, 1>>
    /\ AmpThrew(batch.outcomes[1])
    /\ ~AmpFailed(batch.outcomes[2])
    /\ batch.returned[1].classificationResult # batch.returned[2].classificationResult

(***************************************************************************)
(* The history record written by saveSnapshot, checked under SpecStore.    *)
(***************************************************************************)
\* latest.json holds the snapshot the caller saved last.
LatestIsSaved == sCalls > 0 /\ latest = JSONStringify(rCurrent)

\* C22 as stated: a saveSnapshot(S) call on a store whose latest record holds
\* snapshot L leaves L, unchanged, in the history record tagged with the epoch
\* milliseconds of L.timestamp, and S in the latest record, whatever the clock
\* reads during the call.
C22_Original ==
    [][(sCalls' = sCalls + 1 /\ LatestIsSaved) =>
          /\ getTime(rCurrent.timestamp) \in DOMAIN history'
          /\ history'[getTime(rCurrent.timestamp)] = latest
          /\ latest' = JSONStringify(rCurrent')]_vars

\* A history record holds a snapshot under a tag that is not the snapshot's
\* timestamp.
C22_Witness ==
    \E tag \in DOMAIN history :
        /\ IsJSON(history[tag])
        /\ IsSnapshot(JSONParse(history[tag]))
        /\ getTime(Get(JSONParse(history[tag]), "timestamp")) # tag

(***************************************************************************)
(* First-run equivalence, checked under SpecDiff.                          *)
(***************************************************************************)
\* A snapshot with no function and no SQL-block records.
IsEmptySnapshot(snapshot) ==
    snapshot # Null /\ snapshot.functions = <<>> /\ snapshot.sqlBlocks = <<>>

EmptySnapshot == ExtractionSnapshot(toISOString(0), <<"c", "1">>, <<>>, <<>>)

\* No two records of the list have the same filePath:name key.
DistinctKeys(list) == \A i, j \in 1..Len(list) : i < j => Key(list[i]) # Key(list[j])

\* The latest computeDiff call returned what computeDiff returns for the same
\* current snapshot with the other of the two previous snapshots: null for an
\* empty one, an empty one for null.
SameAsOtherFirstRun ==
    /\ dArgs.previous = Null => dResult = computeDiff(EmptySnapshot, dArgs.current)
    /\ IsEmptySnapshot(dArgs.previous) => dResult = computeDiff(Null, dArgs.current)

\* C27 as stated: for every snapshot S, computeDiff(null, S) and computeDiff(E, S),
\* E holding no records, return the same result.
C27_Original == DiffCalled => SameAsOtherFirstRun

\* C27 as amended: the same, for every snapshot S whose function records have
\* distinct filePath:name keys and whose SQL-block records have distinct keys.
C27_FirstRunAsEmptyPrevious ==
    (/\ DiffCalled
     /\ DistinctKeys(dArgs.current.functions)
     /\ DistinctKeys(dArgs.current.sqlBlocks))
    => SameAsOtherFirstRun

\* computeDiff was called with null and a snapshot of two functions and a SQL
\* block under three keys, all reported as added.
C27_Witness ==
    /\ DiffCalled
    /\ dArgs.previous = Null
    /\ Len(dArgs.current.functions) = 2
    /\ Len(dArgs.current.sqlBlocks) = 1
    /\ DistinctKeys(dArgs.current.functions)
    /\ dResult.added = [functions |-> dArgs.current.functions,
                        sqlBlocks |-> dArgs.current.sqlBlocks]

(***************************************************************************)
(* The store in a run that aborts, checked under SpecFaults.               *)
(***************************************************************************)
\* The run ended with a fatal error before its saveSnapshot call.
AbortedBeforeSave == rpc \in Aborted \ {"aborted in saveSnapshot"}

\* The run is in saveSnapshot or past it.
InOrAfterSave == rpc \in {"done", "aborted in saveSnapshot"}

\* C28: no step of a run before its saveSnapshot call changes latest.json or
\* the history, so a run that aborts before saveSnapshot leaves the store as it
\* was and the next run loads the previous snapshot this run loaded; and a run
\* that is in saveSnapshot or past it has diffed its snapshot against the
\* snapshot it loaded before.
C28_AbortLeavesStore ==
    /\ [][rpc # "generated" => (latest' = latest /\ history' = history)]_vars
    /\ []((AbortedBeforeSave /\ rpc # "aborted in DiffTracker")
             => loadPreviousSnapshot = rPrevious)
    /\ [](InOrAfterSave => rDiff = computeDiff(rPrevious, rCurrent))

\* A second run aborted in generate after the first one had saved: latest.json
\* still holds the snapshot of the first run, which differs from this run's.
C28_Witness ==
    /\ rpc = "aborted in generate"
    /\ runs = 2
    /\ prevRun.saved
    /\ IsSnapshot(rPrevious)
    /\ loadPreviousSnapshot = rPrevious
    /\ ~SameSnapshot(rPrevious, rCurrent)

(***************************************************************************)
(* Properties of the SQL extractor, checked under SpecSQL.                 *)
(***************************************************************************)
SQLExtracted == sqlFile # NoSQLFile /\ sqlFile.extracted

\* The lines of the file, and those that end a statement: not blank, not a
\* '--' comment, ending with ';' once trimmed.
FileLines == split(sqlFile.source)
IsBlank(line) == trim(line) = <<>>
IsDashComment(line) == startsWith(trim(line), <<"-", "-">>)
Terminators ==
    {i \in 1..Len(FileLines) :
        /\ ~IsBlank(FileLines[i])
        /\ ~IsDashComment(FileLines[i])
        /\ endsWith(trim(FileLines[i]), <<";">>)}
LastTerminator == IF Terminators = {} THEN 0 ELSE Max(Terminators)
HasLeftover == \E i \in (LastTerminator + 1)..Len(FileLines) : ~IsBlank(FileLines[i])

\* The lines statement k is made of: from the line after the terminator before
\* it to its own terminator, or to the end of the file for the leftover.
SegmentEnd(k) ==
    IF k = 0 THEN 0
    ELSE IF k <= Cardinality(Terminators)
    THEN CHOOSE t \in Terminators : Cardinality({u \in Terminators : u <= t}) = k
    ELSE Len(FileLines)
Segment(k) == SubSeq(FileLines, SegmentEnd(k - 1) + 1, SegmentEnd(k))

FromFirstCodeLine(sql) ==
    LET lines == split(sql)
        code == {i \in 1..Len(lines) : ~IsBlank(lines[i]) /\ ~IsDashComment(lines[i])}
    IN  IF code = {} THEN <<>>
        ELSE joinWith(SubSeq(lines, Min(code), Len(lines)), <<"\n">>)

\* C24 as stated: the sqlType of every block of a file is the kind named by the
\* statement's first SQL keywords, CREATE [OR REPLACE] PROCEDURE, FUNCTION, VIEW
\* or TRIGGER in any letter case, also when '--' comment lines precede the
\* keywords in the statement text, and query otherwise.
C24_Original ==
    SQLExtracted =>
        \A k \in 1..Len(sqlFile.blocks) :
            sqlFile.blocks[k].sqlType =
                determineSQLType(FromFirstCodeLine(sqlFile.blocks[k].sourceCode))

\* A statement of a '--' line followed by the keywords of a view was given the
\* type query.
C24_Witness ==
    /\ SQLExtracted
    /\ \E k \in 1..Len(sqlFile.blocks) :
          /\ IsDashComment(split(sqlFile.blocks[k].sourceCode)[1])
          /\ determineSQLType(FromFirstCodeLine(sqlFile.blocks[k].sourceCode)) = "view"
          /\ sqlFile.blocks[k].sqlType = "query"

\* The description made of the '--' lines that are no business-rule markers
\* and come before the first line that is neither blank nor a '--' comment.
LeadingCommentsDescription(sql) ==
    LET lines == split(sql)
        stops == {i \in 1..Len(lines) : ~IsBlank(lines[i]) /\ ~IsDashComment(lines[i])}
        stop == IF stops = {} THEN Len(lines) + 1 ELSE Min(stops)
        comments == DescriptionLoop(SubSeq(lines, 1, stop - 1), stop - 1).comments
    IN  IF comments = <<>> THEN Null ELSE joinWith(comments, <<" ">>)

\* C25 as stated: the description of a block is built from the '--' lines,
\* markers excepted, that precede the first non-comment, non-blank line of the
\* statement; a line opening a block comment ends the scan as a code line does.
C25_Original ==
    SQLExtracted =>
        \A k \in 1..Len(sqlFile.blocks) :
            sqlFile.blocks[k].description =
                LeadingCommentsDescription(sqlFile.blocks[k].sourceCode)

\* A statement that begins with a line opening a block comment has a
\* description, taken from a '--' line after it.
C25_Witness ==
    /\ SQLExtracted
    /\ \E k \in 1..Len(sqlFile.blocks) :
          /\ startsWith(sqlFile.blocks[k].sourceCode, <<"/", "*">>)
          /\ sqlFile.blocks[k].description # Null

\* The file lines on which the text of statement k begins and ends: the first
\* and the last line of its segment that are not blank.
TextLines(k) == {i \in (SegmentEnd(k - 1) + 1)..SegmentEnd(k) : ~IsBlank(FileLines[i])}

\* C26 as stated: startLine and endLine of every block are the file lines on
\* which its sourceCode begins and ends, and the span of each block ends before
\* the span of the next one begins.
C26_Original ==
    SQLExtracted =>
        /\ \A k \in 1..Len(sqlFile.blocks) :
              /\ sqlFile.blocks[k].startLine = Min(TextLines(k))
              /\ sqlFile.blocks[k].endLine = Max(TextLines(k))
        /\ \A k \in 1..(Len(sqlFile.blocks) - 1) :
              sqlFile.blocks[k].endLine < sqlFile.blocks[k + 1].startLine

\* The first block of a file begins with a '--' line and its span reaches the
\* line on which the second block begins.
C26_Witness ==
    /\ SQLExtracted
    /\ Len(sqlFile.blocks) = 2
    /\ IsDashComment(FileLines[1])
    /\ sqlFile.blocks[1].startLine = 2
    /\ sqlFile.blocks[2].startLine <= sqlFile.blocks[1].endLine

(***************************************************************************)
(* Properties of the generated documentation, checked under SpecDocs.      *)
(***************************************************************************)
CategoryOf(entity) ==
    IF entity.classificationResult.classification = "business_logic"
    THEN "business-logic" ELSE "pipeline-code"

\* The output file of the entity's category named after the entity's source
\* file exists, is of the entity's kind and has a section for the entity.
Documented(entity, kind) ==
    LET at == OutputPath(CategoryOf(entity), fileToMarkdownPath(entity.filePath)) IN
    /\ at \in DOMAIN docs.files
    /\ docs.files[at].kind = kind
    /\ docs.files[at].file = entity.filePath
    /\ \E i \in 1..Len(docs.files[at].sections) : docs.files[at].sections[i] = entity.name

\* C29 as stated: after generate(functions, sqlBlocks) every function and every
\* SQL block given is documented in the file of its category directory named by
\* fileToMarkdownPath of its filePath.
C29_Original ==
    docs # NoDocs =>
        /\ \A i \in 1..Len(docs.functions) : Documented(docs.functions[i], "functions")
        /\ \A i \in 1..Len(docs.sqlBlocks) : Documented(docs.sqlBlocks[i], "sql")

\* A function and a SQL block of one category and one filePath were given, and
\* the file named after it documents the SQL block alone.
C29_Witness ==
    /\ docs # NoDocs
    /\ \E i \in 1..Len(docs.functions), j \in 1..Len(docs.sqlBlocks) :
          /\ docs.functions[i].filePath = docs.sqlBlocks[j].filePath
          /\ CategoryOf(docs.functions[i]) = CategoryOf(docs.sqlBlocks[j])
          /\ Documented(docs.sqlBlocks[j], "sql")
          /\ ~Documented(docs.functions[i], "functions")

(***************************************************************************)
(* Properties of the webhook handler, checked under SpecWebhook.           *)
(***************************************************************************)
\* The last request carried the signature expected for its body.
CorrectlySigned == expectedSignature(wServer.body) = Signatures(wServer.body)[wServer.header]

\* C30 as stated: with WEBHOOK_SECRET set, a POST whose signature header is
\* missing or is not the expected signature of its body, whatever its length,
\* is answered with 401, starts no extraction and leaves the server running;
\* and a request starts an extraction only if it is correctly signed and is a
\* push to the main or the master branch or a repository_dispatch.
C30_Original ==
    wServer.header > 0 =>
        /\ ~CorrectlySigned =>
              (wServer.status = 401 /\ wServer.spawned = 0 /\ wServer.alive)
        /\ wServer.spawned > 0 =>
              /\ CorrectlySigned
              /\ \/ wServer.event = "repository_dispatch"
                 \/ /\ wServer.event = "push"
                    /\ OrElse(Payloads[wServer.body].ref, RefMain) \in MainBranches

\* A request whose signature header is the expected signature followed by one
\* more character got no answer, and the server process is gone.
C30_Witness ==
    /\ wServer.header > 0
    /\ wServer.header = 6
    /\ wServer.status = 0
    /\ ~wServer.alive
====
